---- MODULE Spec2Model ----
(***************************************************************************)
(* Balatro Run Viewer (src/app/main.py): the handlers that keep the        *)
(* derived run aggregates, the strategy lineage walk, the screenshot       *)
(* timeline of the run detail page and the run deletion, as state          *)
(* machines over the tables the handlers read and write.                   *)
(***************************************************************************)
EXTENDS Integers, Sequences, FiniteSets, TLC

\* Python None and SQL NULL.
Null == -1

\* Largest best_hand_score.
MaxScore == 2
\* Longest list of a batch request.
MaxBatch == 2
\* Number of rows that are ever inserted.
MaxRows == 3
\* Number of connections that write at the same time.
MaxWriters == 2
\* Number of upload_screenshot requests.
MaxUploads == 2
\* Longest screenshot sequence of a run.
MaxShots == 3
\* Number of rows of balatro_strategies.
MaxStrategies == 4
\* Cap on the length of the ancestors list (keeps the state space finite).
MaxWalk == 6
\* Largest rule_decisions and llm_decisions counter.
MaxDecisions == 7
\* Longest screenshot sequence of a run whose scores are looked at.
MaxBars == 3
\* Largest page, per_page and COUNT(*) of the small requests to list_runs.
MaxPage == 2
MaxPerPage == 2
MaxTotal == 4
\* Number of requests to the two catalog endpoints.
MaxCalls == 2
\* Number of requests the deploy webhook serves.
MaxRequests == 2

VARIABLES
    strategies,   \* balatro_strategies: id -> row
    strategy_id,  \* path parameter of page_strategy_detail
    lpc,          \* position of page_strategy_detail
    pid,          \* local pid of the lineage walk
    ancestors,    \* local ancestors list
    children,     \* local children list
    outcome,      \* what page_strategy_detail answers
    screenshots,  \* the run's screenshots, ORDER BY created_at
    gpc,          \* position of page_game_detail
    toc_items,    \* local toc_items of page_game_detail
    dividers,     \* the blind-divider elements written to the feed, in order
    page_run,     \* run_data["run"] of page_game_detail: the decision counters
    ratio,        \* local ratio of page_game_detail
    toc_blinds,   \* the value of blind in each iteration of the TOC pass
    feed_blinds,  \* the value of blind in each iteration of the feed pass
    score_bars,   \* the score bar written for each screenshot
    toc_sidebar,  \* the elements written to the TOC sidebar, in order
    other_shots,  \* the screenshots of run 2, which the run list shows as well
    ipc,          \* position of page_list
    idx_cells,    \* page_list: per run the ratio cell and the score error cell
    q_req,        \* the query string of a GET /api/runs request
    qpc,          \* position of list_runs
    q_sql,        \* the statements list_runs has sent to the pool, in order
    q_total,      \* local total of list_runs
    q_result,     \* what the request is answered
    run,          \* the balatro_runs row of run 1, as committed
    rounds,       \* committed rows of balatro_rounds of the run
    jokers,       \* committed rows of balatro_jokers of the run
    next_id,      \* per writer: how many serial row ids its connection has drawn
    row_lock,     \* the writer whose open transaction has updated the run row
    wpc,          \* per writer: position of its handler
    kind,         \* per writer: the handler it runs
    todo,         \* per writer: how many list elements are still to insert
    written,      \* per writer: the rows its handler has inserted
    agg,          \* per writer: the aggregate its UPDATE computed
    rpc,          \* position of the get_run reader
    view_run,     \* get_run: the run row it fetched
    view_jokers,  \* get_run: the joker rows it fetched
    view_rounds,  \* get_run: the round rows it fetched
    p_result,     \* what the last patch_run call answered
    p_sent,       \* how many statements that call passed to the pool
    shot_rows,    \* committed rows of balatro_screenshots of the run: filenames
    files,        \* the files under SCREENSHOT_DIR
    run_dir,      \* whether the run's directory exists
    next_file,    \* how many file names uuid4 has given
    dpc,          \* position of delete_run
    d_result,     \* what delete_run answered
    d_list,       \* delete_run: the filenames it fetched
    upc,          \* position of upload_screenshot
    u_file,       \* upload_screenshot: its filename
    u_result,     \* what upload_screenshot answered
    catalog_file, \* what is at JOKER_DATA on disk
    joker_catalog,\* the module global _joker_catalog
    opens,        \* how many times open(JOKER_DATA) has been called
    cat_calls,    \* how many catalog endpoint requests have been served
    cat_result,   \* what the last catalog endpoint request answered
    h_req,        \* deploy webhook: the request line and headers being served
    hpc,          \* deploy webhook: position of the handler
    h_steps,      \* deploy webhook: the commands run for this request, with outcome
    h_status,     \* deploy webhook: the status sent for this request, 0 when none
    h_served      \* deploy webhook: how many requests the server has taken

lineageVars == <<strategies, strategy_id, lpc, pid, ancestors, children, outcome>>
pageVars ==
    <<screenshots, gpc, toc_items, dividers, page_run, ratio, toc_blinds,
      feed_blinds, score_bars, toc_sidebar>>
indexVars == <<other_shots, ipc, idx_cells>>
queryVars == <<q_req, qpc, q_sql, q_total, q_result>>

dbVars == <<run, rounds, jokers, next_id, row_lock>>
writerVars == <<wpc, kind, todo, written, agg>>
readerVars == <<rpc, view_run, view_jokers, view_rounds>>
patchVars == <<p_result, p_sent>>
storeVars == <<dbVars, writerVars, readerVars, patchVars>>

diskVars == <<shot_rows, files, run_dir, next_file>>
deleteVars == <<dpc, d_result, d_list>>
uploadVars == <<upc, u_file, u_result>>
shotVars == <<diskVars, deleteVars, uploadVars>>

catalogVars == <<catalog_file, joker_catalog, opens, cat_calls, cat_result>>

hookVars == <<h_req, hpc, h_steps, h_status, h_served>>

vars ==
    <<lineageVars, pageVars, storeVars, shotVars, catalogVars, indexVars, queryVars,
      hookVars>>

----------------------------------------------------------------------------
(* Strategy lineage: page_strategy_detail                                   *)

StrategyIds == 1..MaxStrategies

\* parent_id column: NULL, an existing strategy, or an id with no row.
ParentIds == {Null} \cup (1..(MaxStrategies + 1))

\* One row of balatro_strategies. name, code_hash and created_at follow the id.
StrategyRow(i, p) ==
    [id |-> i, name |-> i, code_hash |-> i, created_at |-> i, parent_id |-> p]

\* Python truthiness of an optional integer: None and 0 are false.
Truthy(v) == v # Null /\ v # 0

\* asyncpg Record.get(key): the column's value, None when the record has no
\* such column.
RecordGet(rec, key) == IF key \in DOMAIN rec THEN rec[key] ELSE Null

\* What fetchrow returns when no row matches (Python None, tested with `not`).
NoRow == [id |-> Null]
IsRow(r) == r.id # Null

\* SELECT * FROM balatro_strategies WHERE id = $1
FetchStrategy(i) == IF i \in DOMAIN strategies THEN strategies[i] ELSE NoRow

\* SELECT id, name, code_hash, created_at FROM balatro_strategies WHERE id = $1
AncestorColumns == {"id", "name", "code_hash", "created_at"}

\* The same query with parent_id added to the selected columns.
FetchAncestorWithParent(i) ==
    IF i \in DOMAIN strategies
    THEN [c \in AncestorColumns \cup {"parent_id"} |-> strategies[i][c]]
    ELSE NoRow

FetchAncestor(i) ==
    IF i \in DOMAIN strategies
    THEN [c \in AncestorColumns |-> strategies[i][c]]
    ELSE NoRow

\* SELECT ... WHERE parent_id = $1 ORDER BY created_at
RECURSIVE SortedIds(_)
SortedIds(S) ==
    IF S = {} THEN <<>>
    ELSE LET m == CHOOSE x \in S : \A y \in S : x <= y
         IN  <<m>> \o SortedIds(S \ {m})

FetchChildren(i) ==
    SortedIds({c \in DOMAIN strategies : strategies[c].parent_id = i})

LineageInit ==
    /\ strategies \in
         {[i \in StrategyIds |-> StrategyRow(i, f[i])] : f \in [StrategyIds -> ParentIds]}
    /\ strategy_id \in 1..(MaxStrategies + 1)
    /\ lpc = "start"
    /\ pid = Null
    /\ ancestors = <<>>
    /\ children = <<>>
    /\ outcome = "pending"

\* No strategy page is being served.
LineageQuiet ==
    /\ strategies = <<>>
    /\ strategy_id = Null
    /\ lpc = "off"
    /\ pid = Null
    /\ ancestors = <<>>
    /\ children = <<>>
    /\ outcome = "pending"

\* s = fetchrow(...); 404 when there is no row; pid = s.get("parent_id")
LoadStrategy ==
    /\ lpc = "start"
    /\ LET s == FetchStrategy(strategy_id)
       IN  IF ~IsRow(s)
           THEN /\ lpc' = "done"
                /\ outcome' = "NotFound"
                /\ UNCHANGED <<pid, ancestors>>
           ELSE /\ lpc' = "walk"
                /\ pid' = RecordGet(s, "parent_id")
                /\ ancestors' = <<>>
                /\ UNCHANGED outcome
    /\ UNCHANGED <<strategies, strategy_id, children>>
    /\ UNCHANGED <<pageVars, storeVars, shotVars, catalogVars, indexVars, queryVars, hookVars>>

\* One iteration of `while pid:`.
WalkStep ==
    /\ lpc = "walk"
    /\ Truthy(pid)
    /\ Len(ancestors) < MaxWalk
    /\ LET anc == FetchAncestor(pid)
       IN  IF ~IsRow(anc)
           THEN /\ lpc' = "children"
                /\ UNCHANGED <<pid, ancestors>>
           ELSE /\ ancestors' = <<anc>> \o ancestors
                /\ pid' = RecordGet(anc, "parent_id")
                /\ UNCHANGED lpc
    /\ UNCHANGED <<strategies, strategy_id, children, outcome>>
    /\ UNCHANGED <<pageVars, storeVars, shotVars, catalogVars, indexVars, queryVars, hookVars>>

\* `while pid:` with pid false.
WalkExit ==
    /\ lpc = "walk"
    /\ ~Truthy(pid)
    /\ lpc' = "children"
    /\ UNCHANGED <<strategies, strategy_id, pid, ancestors, children, outcome>>
    /\ UNCHANGED <<pageVars, storeVars, shotVars, catalogVars, indexVars, queryVars, hookVars>>

\* children = fetch(...); the page is rendered and returned.
LoadChildren ==
    /\ lpc = "children"
    /\ children' = FetchChildren(strategy_id)
    /\ lpc' = "done"
    /\ outcome' = "ok"
    /\ UNCHANGED <<strategies, strategy_id, pid, ancestors>>
    /\ UNCHANGED <<pageVars, storeVars, shotVars, catalogVars, indexVars, queryVars, hookVars>>

LineageNext == LoadStrategy \/ WalkStep \/ WalkExit \/ LoadChildren


\* The parent chain of the table, from parent pointer p upward, at most n nodes:
\* it stops at a NULL pointer and at a pointer to no row.
RECURSIVE ParentChain(_, _)
ParentChain(p, n) ==
    IF n = 0 \/ p \notin DOMAIN strategies THEN <<>>
    ELSE <<p>> \o ParentChain(strategies[p].parent_id, n - 1)

\* The pointer reached from p after following n parent pointers.
RECURSIVE ParentAfter(_, _)
ParentAfter(p, n) ==
    IF n = 0 \/ p \notin DOMAIN strategies THEN p
    ELSE ParentAfter(strategies[p].parent_id, n - 1)

\* The chain of the queried strategy ends at a root (a row with NULL parent).
RootedChain ==
    /\ strategy_id \in DOMAIN strategies
    /\ ParentAfter(strategy_id, MaxStrategies) = Null

\* The parent pointers reachable from the queried strategy form a cycle.
CyclicChain ==
    /\ strategy_id \in DOMAIN strategies
    /\ ParentAfter(strategy_id, MaxStrategies + 1) \in DOMAIN strategies

Reverse(q) == [i \in 1..Len(q) |-> q[Len(q) + 1 - i]]

AncestorIds == [i \in 1..Len(ancestors) |-> ancestors[i].id]

\* C3: when the queried strategy's parent chain ends at a root, the finished
\* walk holds one ancestor per node of the chain, root first and immediate
\* parent last.
C3_AncestorsAreWholeChain ==
    (lpc = "done" /\ outcome = "ok" /\ RootedChain)
        => AncestorIds =
             Reverse(ParentChain(strategies[strategy_id].parent_id, MaxStrategies))

\* C4: when the parent pointers reachable from the queried strategy form a
\* cycle, the walk ends with the distinct outcome CycleDetected.
C4_CycleIsDetected ==
    (lpc = "done" /\ CyclicChain) => outcome = "CycleDetected"

\* C5: the lineage walk terminates for every contents of the strategies
\* table (cycles, self-parents, pointers to no row): the handler always
\* reaches its answer.
C5_WalkTerminates == <>(lpc = "done")

\* A finished walk over a table whose pointers cycle from the queried strategy.
C5_Witness == lpc = "done" /\ outcome = "ok" /\ CyclicChain /\ Len(ancestors) > 0

----------------------------------------------------------------------------
(* The joker catalog: the module global _joker_catalog, its loader and the  *)
(* two endpoints that serve it. The file at JOKER_DATA belongs to the      *)
(* deployment and can be replaced while the process runs.                  *)

\* name_en of the entries of the two catalog files the model knows.
CatalogV1 == <<"Joker">>
CatalogV2 == <<"Joker", "Blueprint">>

\* What can be at JOKER_DATA: nothing, a file that is not JSON, a catalog.
FileStates == {"missing", "corrupt", "v1", "v2"}

\* json.load(f) of a file that holds a catalog.
JsonLoad(f) == IF f = "v1" THEN CatalogV1 ELSE CatalogV2

\* _joker_catalog is None, or is a list.
NoCatalog == [none |-> TRUE]
Loaded(list) == [none |-> FALSE, list |-> list]

\* _load_joker_catalog opens the file: `if _joker_catalog is None`.
LoadOpens == joker_catalog.none

\* _load_joker_catalog raises: json.load fails and only FileNotFoundError is
\* caught.
LoadRaises == LoadOpens /\ catalog_file = "corrupt"

\* The global after the call.
LoadedCatalog ==
    IF ~LoadOpens THEN joker_catalog
    ELSE IF catalog_file = "missing" THEN Loaded(<<>>)
    ELSE IF catalog_file = "corrupt" THEN joker_catalog
    ELSE Loaded(JsonLoad(catalog_file))

\* The state change of one call of _load_joker_catalog.
LoadJokerCatalog ==
    /\ joker_catalog' = LoadedCatalog
    /\ opens' = IF LoadOpens THEN opens + 1 ELSE opens

\* The names a lookup is asked for, with str.lower() and str.strip() on them.
LookupNames == {"Joker", " joker ", "joker", "nope"}
LowerOf(n) == IF n = "Joker" THEN "joker" ELSE IF n = "Blueprint" THEN "blueprint" ELSE n
StripOf(n) == IF n = " joker " THEN "joker" ELSE n

\* The loop of joker_lookup over the catalog from position i on: the index
\* of the first entry that matches, 0 when none does.
RECURSIVE LookupLoop(_, _, _)
LookupLoop(catalog, i, name_lower) ==
    IF i > Len(catalog) THEN 0
    ELSE IF LowerOf(catalog[i]) = name_lower THEN i
    ELSE LookupLoop(catalog, i + 1, name_lower)

CatalogInit ==
    /\ catalog_file \in FileStates
    /\ joker_catalog = NoCatalog
    /\ opens = 0
    /\ cat_calls = 0
    /\ cat_result = [status |-> 0]

\* A process whose catalog is not asked for: the file is in place.
CatalogQuiet ==
    /\ catalog_file = "v1"
    /\ joker_catalog = NoCatalog
    /\ opens = 0
    /\ cat_calls = 0
    /\ cat_result = [status |-> 0]

\* GET /api/jokers/catalog
JokerCatalog ==
    /\ cat_calls < MaxCalls
    /\ cat_calls' = cat_calls + 1
    /\ LoadJokerCatalog
    /\ cat_result' = IF LoadRaises THEN [status |-> 500]
                     ELSE [status |-> 200, jokers |-> LoadedCatalog.list]
    /\ UNCHANGED catalog_file
    /\ UNCHANGED <<lineageVars, pageVars, storeVars, shotVars, indexVars, queryVars, hookVars>>

\* GET /api/jokers/lookup/{name}
JokerLookup(name) ==
    /\ cat_calls < MaxCalls
    /\ cat_calls' = cat_calls + 1
    /\ LoadJokerCatalog
    /\ cat_result' =
          IF LoadRaises THEN [status |-> 500]
          ELSE LET catalog == LoadedCatalog.list
                   i == LookupLoop(catalog, 1, StripOf(LowerOf(name)))
               IN  IF i = 0 THEN [status |-> 404]
                   ELSE [status |-> 200, joker |-> catalog[i]]
    /\ UNCHANGED catalog_file
    /\ UNCHANGED <<lineageVars, pageVars, storeVars, shotVars, indexVars, queryVars, hookVars>>

\* The deployment replaces, removes or damages the file.
ReplaceFile(f) ==
    /\ f # catalog_file
    /\ catalog_file' = f
    /\ UNCHANGED <<joker_catalog, opens, cat_calls, cat_result>>
    /\ UNCHANGED <<lineageVars, pageVars, storeVars, shotVars, indexVars, queryVars, hookVars>>

CatalogNext ==
    \/ JokerCatalog
    \/ \E name \in LookupNames : JokerLookup(name)
    \/ \E f \in FileStates : ReplaceFile(f)

\* C16: in one process the catalog file is opened at most once, whatever the
\* first load met (a catalog, no file, a file that is not JSON), and once a
\* load has happened the catalog that calls see never changes.
C16_CatalogOpenedOnce ==
    /\ [](opens <= 1)
    /\ [][opens >= 1 => joker_catalog' = joker_catalog]_vars

----------------------------------------------------------------------------
(* Run detail page: the TOC pass and the feed pass of page_game_detail.     *)
(* A caption is a sequence of tokens; the tokens that matter stand for     *)
(* these pieces of caption text:                                           *)
(*   "di" U+7B2C, "guan" U+5173 (the two ends of the ante marker),         *)
(*   "0".."9" digits, "shop" U+5546 U+5E97, "small" U+5C0F U+76F2,         *)
(*   "big" U+5927 U+76F2, "Boss", "over" U+6E38 U+620F U+7ED3 U+675F,      *)
(*   "start" U+5F00 U+59CB; any other token is other text.                 *)

Digits == <<"0", "1", "2", "3", "4", "5", "6", "7", "8", "9">>
IsDigit(t) == \E d \in 1..10 : Digits[d] = t
DigitVal(t) == (CHOOSE d \in 1..10 : Digits[d] = t) - 1

\* `kw in cap`
Contains(cap, kw) == \E i \in 1..Len(cap) : cap[i] = kw

\* End of the run of digits that starts at position i (i - 1 when there is none).
RECURSIVE DigitRunEnd(_, _)
DigitRunEnd(cap, i) ==
    IF i <= Len(cap) /\ IsDigit(cap[i]) THEN DigitRunEnd(cap, i + 1) ELSE i - 1

\* int() of the digit tokens cap[i..j].
RECURSIVE IntOf(_, _, _)
IntOf(cap, i, j) ==
    IF j < i THEN 0 ELSE IntOf(cap, i, j - 1) * 10 + DigitVal(cap[j])

\* The regular expression matches at position i: the opening mark, one or
\* more digits, the closing mark.
AnteMatchAt(cap, i) ==
    /\ cap[i] = "di"
    /\ DigitRunEnd(cap, i + 1) >= i + 1
    /\ DigitRunEnd(cap, i + 1) < Len(cap)
    /\ cap[DigitRunEnd(cap, i + 1) + 1] = "guan"

\* ante_m = re.search(...); ante_n = int(ante_m.group(1)) if ante_m else 0
AnteOf(cap) ==
    IF \E i \in 1..Len(cap) : AnteMatchAt(cap, i)
    THEN LET i == CHOOSE k \in 1..Len(cap) :
                    /\ AnteMatchAt(cap, k)
                    /\ \A m \in 1..(k - 1) : ~AnteMatchAt(cap, m)
         IN  IntOf(cap, i + 1, DigitRunEnd(cap, i + 1))
    ELSE 0

Keywords == <<"shop", "small", "big", "Boss">>

\* The fallback decided by the event type alone.
BlindOfEventOnly(cap, ev) ==
    IF \E k \in 1..Len(Keywords) : Contains(cap, Keywords[k])
    THEN Keywords[CHOOSE k \in 1..Len(Keywords) :
                    /\ Contains(cap, Keywords[k])
                    /\ \A m \in 1..(k - 1) : ~Contains(cap, Keywords[m])]
    ELSE IF ev = "game_over" THEN "ended"
    ELSE IF ev = "game_start" THEN "started"
    ELSE ""

\* The keyword loop and the event-type fallback; "" is no stage.
BlindOf(cap, ev) ==
    IF \E k \in 1..Len(Keywords) : Contains(cap, Keywords[k])
    THEN Keywords[CHOOSE k \in 1..Len(Keywords) :
                    /\ Contains(cap, Keywords[k])
                    /\ \A m \in 1..(k - 1) : ~Contains(cap, Keywords[m])]
    ELSE IF Contains(cap, "over") \/ ev = "game_over" THEN "ended"
    ELSE IF Contains(cap, "start") \/ ev = "game_start" THEN "started"
    ELSE ""

\* The feed pass has its own copy of the keyword list, the keyword loop and
\* the fallback.
FeedKeywords == <<"shop", "small", "big", "Boss">>

\* The keyword that stands first in the caption text, whatever its place in
\* the list.
FeedBlindOfByPosition(cap, ev) ==
    IF \E k \in 1..Len(FeedKeywords) : Contains(cap, FeedKeywords[k])
    THEN cap[CHOOSE i \in 1..Len(cap) :
                /\ \E k \in 1..Len(FeedKeywords) : cap[i] = FeedKeywords[k]
                /\ \A j \in 1..(i - 1) :
                      \A k \in 1..Len(FeedKeywords) : cap[j] # FeedKeywords[k]]
    ELSE IF Contains(cap, "over") \/ ev = "game_over" THEN "ended"
    ELSE IF Contains(cap, "start") \/ ev = "game_start" THEN "started"
    ELSE ""

FeedBlindOf(cap, ev) ==
    IF \E k \in 1..Len(FeedKeywords) : Contains(cap, FeedKeywords[k])
    THEN FeedKeywords[CHOOSE k \in 1..Len(FeedKeywords) :
                        /\ Contains(cap, FeedKeywords[k])
                        /\ \A m \in 1..(k - 1) : ~Contains(cap, FeedKeywords[m])]
    ELSE IF Contains(cap, "over") \/ ev = "game_over" THEN "ended"
    ELSE IF Contains(cap, "start") \/ ev = "game_start" THEN "started"
    ELSE ""

\* cap = s.get("caption") or s.get("event_type") or ""
CapOf(s) ==
    IF s.caption # <<>> THEN s.caption
    ELSE IF s.event_type # "" THEN <<s.event_type>>
    ELSE <<>>

\* ev = s.get("event_type") or ""
EvOf(s) == s.event_type

\* The key built from the stage alone, the ante left out.
KeyWithoutAnte(ante_n, blind) == <<"a", 0, "-", blind>>

\* key = f"a{ante_n}-{blind}"
Key(ante_n, blind) == <<"a", ante_n, "-", blind>>

\* f"blind-{i}"
DividerId(i) == <<"blind-", i>>

\* The TOC loop with its anchors counted from one, as enumerate(..., 1)
\* would number them.
RECURSIVE TocLoopOneBased(_, _, _, _)
TocLoopOneBased(shots, i, seen_keys, toc) ==
    IF i > Len(shots) THEN toc
    ELSE LET cap == CapOf(shots[i])
             ante_n == AnteOf(cap)
             blind == BlindOf(cap, EvOf(shots[i]))
             key == Key(ante_n, blind)
         IN  IF key \notin seen_keys /\ blind # ""
             THEN TocLoopOneBased(shots, i + 1, seen_keys \cup {key},
                          Append(toc, <<ante_n, blind, DividerId(i)>>))
             ELSE TocLoopOneBased(shots, i + 1, seen_keys, toc)

\* The TOC loop from (1-based) position i on, with its seen_keys and toc_items.
RECURSIVE TocLoop(_, _, _, _)
TocLoop(shots, i, seen_keys, toc) ==
    IF i > Len(shots) THEN toc
    ELSE LET cap == CapOf(shots[i])
             ante_n == AnteOf(cap)
             blind == BlindOf(cap, EvOf(shots[i]))
             key == Key(ante_n, blind)
         IN  IF key \notin seen_keys /\ blind # ""
             THEN TocLoop(shots, i + 1, seen_keys \cup {key},
                          Append(toc, <<ante_n, blind, DividerId(i - 1)>>))
             ELSE TocLoop(shots, i + 1, seen_keys, toc)

\* The feed loop with last_blind_key assigned in every iteration, not only
\* when a divider is written.
RECURSIVE FeedLoopForgetting(_, _, _, _)
FeedLoopForgetting(shots, i, last_blind_key, divs) ==
    IF i > Len(shots) THEN divs
    ELSE LET cap == CapOf(shots[i])
             ante_n == AnteOf(cap)
             blind == FeedBlindOf(cap, EvOf(shots[i]))
             key == Key(ante_n, blind)
         IN  IF key # last_blind_key /\ blind # ""
             THEN FeedLoopForgetting(shots, i + 1, key,
                           Append(divs, <<ante_n, blind, DividerId(i - 1)>>))
             ELSE FeedLoopForgetting(shots, i + 1, key, divs)

\* The feed loop from position i on, with its last_blind_key; the result is
\* the sequence of blind-divider elements, each with its id and the key it
\* was emitted for.
RECURSIVE FeedLoop(_, _, _, _)
FeedLoop(shots, i, last_blind_key, divs) ==
    IF i > Len(shots) THEN divs
    ELSE LET cap == CapOf(shots[i])
             ante_n == AnteOf(cap)
             blind == FeedBlindOf(cap, EvOf(shots[i]))
             key == Key(ante_n, blind)
         IN  IF key # last_blind_key /\ blind # ""
             THEN FeedLoop(shots, i + 1, key,
                           Append(divs, <<ante_n, blind, DividerId(i - 1)>>))
             ELSE FeedLoop(shots, i + 1, last_blind_key, divs)

\* The TOC sidebar from entry k of toc_items on, with its last_toc_ante: an
\* ante heading when the ante is positive and new, then the stage line when
\* the stage is not empty; both carry the entry's div_id as their target.
RECURSIVE TocSidebar(_, _, _, _)
TocSidebar(toc, k, last_toc_ante, out) ==
    IF k > Len(toc) THEN out
    ELSE LET ante_n == toc[k][1]
             blind == toc[k][2]
             div_id == toc[k][3]
             heads == ante_n > 0 /\ ante_n # last_toc_ante
             with_ante == IF heads
                          THEN Append(out, [class |-> "toc-ante", target |-> div_id])
                          ELSE out
             with_blind == IF blind # ""
                           THEN Append(with_ante, [class |-> "toc-blind", target |-> div_id])
                           ELSE with_ante
         IN  TocSidebar(toc, k + 1, IF heads THEN ante_n ELSE last_toc_ante, with_blind)

\* The value of blind in each iteration of the TOC pass and of the feed pass.
TocBlinds(shots) ==
    [i \in 1..Len(shots) |-> BlindOf(CapOf(shots[i]), EvOf(shots[i]))]
FeedBlinds(shots) ==
    [i \in 1..Len(shots) |-> FeedBlindOf(CapOf(shots[i]), EvOf(shots[i]))]

\* The keys of the entries that the TOC pass of the request before left in
\* toc_items.
SeenKeysLeft == {Key(toc_items[k][1], toc_items[k][2]) : k \in 1..Len(toc_items)}

\* seen_keys = set() and last_blind_key = "" before the loops.
NewSeenKeys == {}
NoBlindKey == <<>>

\* round(n / d) of Python for n >= 0 and d > 0: to the nearest integer, a tie
\* to the even one. (The float quotient and the exact one round alike for
\* the values the model draws.)
RoundHalfEven(n, d) ==
    LET q == n \div d
        r == n % d
    IN  IF 2 * r < d THEN q
        ELSE IF 2 * r > d THEN q + 1
        ELSE IF q % 2 = 0 THEN q ELSE q + 1

PyRound(n, d) == IF n >= 0 THEN RoundHalfEven(n, d) ELSE 0 - RoundHalfEven(0 - n, d)

\* `x or 0`
OrZero(x) == IF Truthy(x) THEN x ELSE 0

\* The ratio cell: "-" or f"{n}%".
NoRatio == [text |-> "-"]
Percent(n) == [text |-> "%", n |-> n]

\* The ratio with the guard on td left out: zero decisions give "0%".
DetailRatioUnguarded(r) ==
    LET rd == OrZero(RecordGet(r, "rule_decisions"))
        ld == OrZero(RecordGet(r, "llm_decisions"))
        td == rd + ld
    IN  IF td > 0 THEN Percent(RoundHalfEven(rd * 100, td)) ELSE Percent(0)

\* rd, ld, td and ratio of page_game_detail.
DetailRatio(r) ==
    LET rd == OrZero(RecordGet(r, "rule_decisions"))
        ld == OrZero(RecordGet(r, "llm_decisions"))
        td == rd + ld
    IN  IF td > 0 THEN Percent(RoundHalfEven(rd * 100, td)) ELSE NoRatio

\* The run row as page_game_detail gets it: a counter is a number, is NULL
\* (Null) or is not a key of the row.
DecisionVals == {Null} \cup (0..MaxDecisions)
RunStats(rd, ld) == [rule_decisions |-> rd, llm_decisions |-> ld]
RunStatsRows ==
    {RunStats(rd, ld) : rd \in DecisionVals, ld \in DecisionVals}
        \cup {[rule_decisions |-> rd] : rd \in DecisionVals}
        \cup {[llm_decisions |-> ld] : ld \in DecisionVals}

\* Scores are whole numbers; score_error is a fraction, held in thousandths.
\* abs(err) < 0.2 and abs(err) < 0.5
Abs(x) == IF x < 0 THEN 0 - x ELSE x

\* The class with the sign of the error kept.
ErrClassSigned(err) == IF err < 200 THEN "good" ELSE IF err < 500 THEN "ok" ELSE "bad"

ErrClass(err) == IF Abs(err) < 200 THEN "good" ELSE IF Abs(err) < 500 THEN "ok" ELSE "bad"

\* The score bar of one screenshot.
NoBar == [shown |-> FALSE]
ScoreBar(s) ==
    LET est == RecordGet(s, "estimated_score")
        act == RecordGet(s, "actual_score")
    IN  IF Truthy(est) /\ act # Null
        THEN LET err == OrZero(RecordGet(s, "score_error"))
             IN  [shown |-> TRUE,
                  err_pct |-> PyRound(err, 10),
                  err_cls |-> ErrClass(err),
                  sign |-> IF err >= 0 THEN "+" ELSE ""]
        ELSE NoBar

\* The screenshots the model draws from: caption tokens and event_type
\* ("" is a NULL column), and the three score columns.
Shot(c, e) ==
    [caption |-> c, event_type |-> e,
     estimated_score |-> Null, actual_score |-> Null, score_error |-> Null]

ScoredShot(est, act, err) ==
    [caption |-> <<>>, event_type |-> "action",
     estimated_score |-> est, actual_score |-> act, score_error |-> err]

Shots ==
    { Shot(<<"di", "1", "guan", "shop">>, "action"),
      Shot(<<"di", "1", "guan", "Boss">>, "action"),
      Shot(<<"di", "2", "guan", "shop", "x">>, ""),
      Shot(<<"Boss", "di", "0", "1", "guan", "shop">>, "action"),
      Shot(<<"x", "di", "guan", "1", "small">>, "action"),
      Shot(<<"di", "1", "0", "guan", "start">>, "action"),
      Shot(<<"x", "over">>, "action"),
      Shot(<<"x">>, "action"),
      Shot(<<"x">>, "game_start"),
      Shot(<<>>, "game_over"),
      Shot(<<>>, "") }

\* score_error values: none, 0.1, 0.2, 0.3, 0.5, 0.9 and -0.6.
ErrVals == {Null, 100, 200, 300, 500, 900, -600}

ScoredShots ==
    {ScoredShot(100, 100, e) : e \in ErrVals}
        \cup { ScoredShot(Null, 100, 300), ScoredShot(100, Null, 300),
               ScoredShot(0, 100, 900), ScoredShot(100, 0, -600) }

RECURSIVE SeqsUpTo(_, _)
SeqsUpTo(S, n) ==
    IF n = 0 THEN {<<>>}
    ELSE LET shorter == SeqsUpTo(S, n - 1)
         IN  shorter \cup {Append(q, x) : q \in {r \in shorter : Len(r) = n - 1}, x \in S}

\* What every request starts from: nothing rendered yet.
NothingRendered ==
    /\ toc_items = <<>>
    /\ dividers = <<>>
    /\ ratio = NoRatio
    /\ toc_blinds = <<>>
    /\ feed_blinds = <<>>
    /\ score_bars = <<>>
    /\ toc_sidebar = <<>>

\* A run with a timeline and no scores.
PageInit ==
    /\ screenshots \in SeqsUpTo(Shots, MaxShots)
    /\ page_run = RunStats(Null, Null)
    /\ gpc = "start"
    /\ NothingRendered

\* A run without screenshots.
PageIdle ==
    /\ screenshots = <<>>
    /\ page_run = RunStats(Null, Null)
    /\ gpc = "start"
    /\ NothingRendered

\* No run detail page is being served.
PageQuiet ==
    /\ screenshots = <<>>
    /\ page_run = RunStats(Null, Null)
    /\ gpc = "off"
    /\ NothingRendered

\* page_game_detail from the catalog load to the response, for a run that
\* get_run has found; the page is requested twice. An exception of the
\* catalog load ends the request.
PageGameDetail ==
    /\ gpc \in {"start", "done"}
    /\ LoadJokerCatalog
    /\ IF LoadRaises
       THEN /\ gpc' = "error"
            /\ UNCHANGED <<toc_items, dividers, ratio, toc_blinds, feed_blinds, score_bars, toc_sidebar>>
       ELSE /\ gpc' = IF gpc = "start" THEN "done" ELSE "again"
            /\ ratio' = DetailRatio(page_run)
            /\ toc_items' = TocLoop(screenshots, 1, NewSeenKeys, <<>>)
            /\ toc_blinds' = TocBlinds(screenshots)
            /\ dividers' = FeedLoop(screenshots, 1, NoBlindKey, <<>>)
            /\ feed_blinds' = FeedBlinds(screenshots)
            /\ score_bars' = [i \in 1..Len(screenshots) |-> ScoreBar(screenshots[i])]
            /\ toc_sidebar' = TocSidebar(TocLoop(screenshots, 1, NewSeenKeys, <<>>), 1, -1, <<>>)
    /\ UNCHANGED <<screenshots, page_run, catalog_file, cat_calls, cat_result>>
    /\ UNCHANGED <<lineageVars, storeVars, shotVars, indexVars, queryVars, hookVars>>

PageNext == PageGameDetail

\* The (ante, stage) pair the page assigns to screenshot i.
AnteAt(i) == AnteOf(CapOf(screenshots[i]))
StageAt(i) == BlindOf(CapOf(screenshots[i]), EvOf(screenshots[i]))

\* The positions that carry an (ante, stage) pair with non-empty stage that
\* no earlier position carries.
FirstOccurrences ==
    {i \in 1..Len(screenshots) :
        /\ StageAt(i) # ""
        /\ \A j \in 1..(i - 1) : ~(AnteAt(j) = AnteAt(i) /\ StageAt(j) = StageAt(i))}

\* C6: the table of contents has exactly one entry per distinct (ante, stage)
\* pair with non-empty stage, in order of first occurrence, each anchored at
\* the position of the first screenshot that carries the pair.
C6_TocOnePerKey ==
    gpc = "done" =>
        LET first == SortedIds(FirstOccurrences)
        IN  /\ Len(toc_items) = Len(first)
            /\ \A k \in 1..Len(first) :
                  toc_items[k] =
                    <<AnteAt(first[k]), StageAt(first[k]), DividerId(first[k] - 1)>>

\* shop@1, boss@1, shop@1: two entries, anchored at 0 and 1.
C6_Witness ==
    /\ gpc = "done"
    /\ screenshots = << Shot(<<"di", "1", "guan", "shop">>, "action"),
                        Shot(<<"di", "1", "guan", "Boss">>, "action"),
                        Shot(<<"di", "1", "guan", "shop">>, "action") >>
    /\ toc_items = << <<1, "shop", DividerId(0)>>,
                      <<1, "Boss", DividerId(1)>> >>

\* The page has been rendered.
Rendered == gpc \in {"done", "again"}

DividerPos(k) == dividers[k][3][2]
DividerKey(k) == <<dividers[k][1], dividers[k][2]>>

\* The dividers written before screenshot i.
DividersBefore(i) == {k \in 1..Len(dividers) : DividerPos(k) < i - 1}

\* The divider written last before screenshot i.
LastDividerBefore(i) ==
    CHOOSE k \in DividersBefore(i) : \A m \in DividersBefore(i) : m <= k

\* C18: the feed pass writes a divider at screenshot i exactly when the stage
\* of i is non-empty and its (ante, stage) key is not the key of the divider
\* written last before i; a screenshot without stage writes none and does not
\* change what counts as the last key; no two dividers in a row have the same
\* key.
C18_DividerOnKeyChange ==
    Rendered =>
        /\ \A i \in 1..Len(screenshots) :
              (\E k \in 1..Len(dividers) : DividerPos(k) = i - 1)
                <=> /\ feed_blinds[i] # ""
                    /\ \/ DividersBefore(i) = {}
                       \/ DividerKey(LastDividerBefore(i)) # <<AnteAt(i), feed_blinds[i]>>
        /\ \A k \in 1..Len(dividers) :
              /\ DividerPos(k) + 1 \in 1..Len(screenshots)
              /\ DividerKey(k) = <<AnteAt(DividerPos(k) + 1), feed_blinds[DividerPos(k) + 1]>>
              /\ k > 1 => DividerPos(k - 1) < DividerPos(k)
              /\ k > 1 => DividerKey(k - 1) # DividerKey(k)

\* shop@1, a caption without stage, shop@1: one divider.
C18_Witness ==
    /\ gpc = "done"
    /\ screenshots = << Shot(<<"di", "1", "guan", "shop">>, "action"),
                        Shot(<<"x">>, "action"),
                        Shot(<<"di", "1", "guan", "shop">>, "action") >>
    /\ dividers = << <<1, "shop", DividerId(0)>> >>

\* The caption column holds none of the four stage keywords.
NoKeywordIn(text) == \A k \in 1..Len(Keywords) : ~Contains(text, Keywords[k])

EventStage(ev) ==
    IF ev = "game_over" THEN "ended"
    ELSE IF ev = "game_start" THEN "started"
    ELSE ""

\* C19 as stated: when the caption holds none of the four stage keywords the
\* stage is decided by the event type alone: ended for game_over, started
\* for game_start, empty otherwise, whatever else the caption holds.
C19_StageByEventAlone ==
    Rendered =>
        \A i \in 1..Len(screenshots) :
            NoKeywordIn(screenshots[i].caption) =>
                /\ toc_blinds[i] = EventStage(screenshots[i].event_type)
                /\ feed_blinds[i] = EventStage(screenshots[i].event_type)

\* C19 as amended: when the text that is classified (the caption, or the
\* event type when there is no caption) holds none of the four stage
\* keywords, the stage is ended if the text holds the game-over words or the
\* event type is game_over, else started if the text holds the start word or
\* the event type is game_start, else empty.
C19_StageByTextOrEvent ==
    Rendered =>
        \A i \in 1..Len(screenshots) :
            LET text == CapOf(screenshots[i])
                ev == screenshots[i].event_type
                stage == IF Contains(text, "over") \/ ev = "game_over" THEN "ended"
                         ELSE IF Contains(text, "start") \/ ev = "game_start" THEN "started"
                         ELSE ""
            IN  NoKeywordIn(text) =>
                    /\ toc_blinds[i] = stage
                    /\ feed_blinds[i] = stage
                    /\ stage = "" =>
                          /\ \A k \in 1..Len(dividers) : DividerPos(k) # i - 1
                          /\ \A k \in 1..Len(toc_items) : toc_items[k][3] # DividerId(i - 1)

\* An action screenshot whose caption holds the game-over words, a game_start
\* screenshot and one that is neither.
C19_Witness ==
    /\ gpc = "done"
    /\ screenshots = << Shot(<<"x", "over">>, "action"),
                        Shot(<<"x">>, "game_start"),
                        Shot(<<"x">>, "action") >>
    /\ toc_blinds = <<"ended", "started", "">>

\* The first keyword of the order shop, small blind, big blind, boss that the
\* text holds.
FirstInOrder(text) ==
    IF Contains(text, "shop") THEN "shop"
    ELSE IF Contains(text, "small") THEN "small"
    ELSE IF Contains(text, "big") THEN "big"
    ELSE "Boss"

\* C20: a caption that holds several stage keywords gets the first of them in
\* the order shop, small blind, big blind, boss, wherever they stand in the
\* text, and the TOC pass and the feed pass give every screenshot the same
\* stage.
C20_FirstKeywordInOrder ==
    Rendered =>
        \A i \in 1..Len(screenshots) :
            /\ feed_blinds[i] = toc_blinds[i]
            /\ ~NoKeywordIn(CapOf(screenshots[i])) =>
                  toc_blinds[i] = FirstInOrder(CapOf(screenshots[i]))

\* The caption with the boss keyword before the shop keyword is a shop.
C20_Witness ==
    /\ gpc = "done"
    /\ Len(screenshots) >= 1
    /\ screenshots[1] = Shot(<<"Boss", "di", "0", "1", "guan", "shop">>, "action")
    /\ toc_blinds[1] = "shop"
    /\ feed_blinds[1] = "shop"


\* C23: on a rendered run detail page a screenshot has a score bar exactly
\* when its estimated_score and its actual_score are both not NULL, zero
\* included.
C23_BarIffBothScores ==
    Rendered =>
        \A i \in 1..Len(screenshots) :
            score_bars[i].shown <=>
                (screenshots[i].estimated_score # Null
                   /\ screenshots[i].actual_score # Null)

\* The dividers from position k on whose (ante, stage) key no earlier divider
\* carries.
RECURSIVE WithoutRepeatedKeys(_, _, _)
WithoutRepeatedKeys(divs, k, out) ==
    IF k > Len(divs) THEN out
    ELSE IF \E m \in 1..(k - 1) : divs[m][1] = divs[k][1] /\ divs[m][2] = divs[k][2]
         THEN WithoutRepeatedKeys(divs, k + 1, out)
         ELSE WithoutRepeatedKeys(divs, k + 1, Append(out, divs[k]))

EmittedIds == {dividers[k][3] : k \in 1..Len(dividers)}

\* C21: on a rendered page the TOC entries are the emitted dividers without
\* those whose (ante, stage) key an earlier divider already carries, in the
\* order of emission, and every target of the TOC entries and of the sidebar
\* elements written from them is the id of an emitted divider.
C21_TocIsDividersDeduplicated ==
    Rendered =>
        /\ toc_items = WithoutRepeatedKeys(dividers, 1, <<>>)
        /\ \A k \in 1..Len(toc_items) : toc_items[k][3] \in EmittedIds
        /\ \A k \in 1..Len(toc_sidebar) : toc_sidebar[k].target \in EmittedIds
        /\ {toc_sidebar[k].target : k \in 1..Len(toc_sidebar)}
               = {toc_items[k][3] : k \in 1..Len(toc_items)}

\* A page whose feed repeats a key: more dividers than TOC entries, and at
\* least two entries in the sidebar.
C21_Witness ==
    /\ Rendered
    /\ Len(toc_items) >= 2
    /\ Len(dividers) > Len(toc_items)
    /\ Len(toc_sidebar) > Len(toc_items)

----------------------------------------------------------------------------
(* The run list page_list: the ratio cell and the score error cell of the   *)
(* runs tab. The list shows run 1, whose row and screenshots are those of  *)
(* the run detail page, and run 2.                                         *)

ListedRuns == {1, 2}

\* The row of run 2.
OtherRun == RunStats(2, 0)

RunRowOf(r) == IF r = 1 THEN page_run ELSE OtherRun
ShotsOfRun(r) == IF r = 1 THEN screenshots ELSE other_shots

\* WHERE estimated_score IS NOT NULL AND actual_score IS NOT NULL
Qualifies(s) == s.estimated_score # Null /\ s.actual_score # Null

\* The rows an aggregate over score_error takes in: SQL aggregates skip NULL.
HasError(s) == s.score_error # Null

\* SUM(ABS(score_error)) and MAX(ABS(score_error)) over rows[1..i].
RECURSIVE SumAbsErr(_, _)
SumAbsErr(rows, i) ==
    IF i = 0 THEN 0 ELSE SumAbsErr(rows, i - 1) + Abs(rows[i].score_error)

RECURSIVE MaxAbsErr(_, _)
MaxAbsErr(rows, i) ==
    IF i = 0 THEN 0
    ELSE LET m == MaxAbsErr(rows, i - 1)
             x == Abs(rows[i].score_error)
         IN  IF x > m THEN x ELSE m

\* A fraction sum / n; n = 0 is NULL.
Frac(sum, n) == [sum |-> sum, n |-> n]
NullFrac == Frac(0, 0)

\* The row of the score_stats query for one run_id; GROUP BY gives a run
\* without rows in the WHERE set no row at all.
NoStats == [cnt |-> 0]
ScoreStatsOf(shots) ==
    LET q == SelectSeq(shots, Qualifies)
        e == SelectSeq(q, HasError)
    IN  IF Len(q) = 0 THEN NoStats
        ELSE [cnt |-> Len(q),
              avg_err |-> IF Len(e) = 0 THEN NullFrac ELSE Frac(SumAbsErr(e, Len(e)), Len(e)),
              max_err |-> IF Len(e) = 0 THEN NullFrac ELSE Frac(MaxAbsErr(e, Len(e)), 1)]

\* score_map.get(r["id"])
ScoreMapGet(r) == ScoreStatsOf(ShotsOfRun(r))

\* float(x or 0) * 100: the fraction in percent.
PercentOf(f) == IF f.n = 0 \/ f.sum = 0 THEN Frac(0, 1) ELSE Frac(f.sum, f.n * 10)

\* "good" if avg_e < 20 else ("ok" if avg_e < 50 else "bad")
RunErrClass(avg_e) ==
    IF avg_e.sum < 20 * avg_e.n THEN "good"
    ELSE IF avg_e.sum < 50 * avg_e.n THEN "ok" ELSE "bad"

\* The score error cell: "-" or the class, the two percentages as the format
\* .0f prints them, and the count.
NoErrCell == [text |-> "-"]
ErrCell(ss) ==
    IF ss.cnt > 0
    THEN LET avg_e == PercentOf(ss.avg_err)
             max_e == PercentOf(ss.max_err)
         IN  [text |-> "score-err",
              err_cls |-> RunErrClass(avg_e),
              avg |-> RoundHalfEven(avg_e.sum, avg_e.n),
              max |-> RoundHalfEven(max_e.sum, max_e.n),
              cnt |-> ss.cnt,
              avg_over |-> ss.avg_err.n]
    ELSE NoErrCell

\* rd, ld, td and ratio of page_list.
ListRatio(r) ==
    LET rd == OrZero(RecordGet(r, "rule_decisions"))
        ld == OrZero(RecordGet(r, "llm_decisions"))
        td == rd + ld
    IN  IF td > 0 THEN Percent(RoundHalfEven(rd * 100, td)) ELSE NoRatio

NoCells == [r \in ListedRuns |-> [ratio |-> NoRatio, err_cell |-> NoErrCell]]

\* The run list is asked for.
IndexInit ==
    /\ other_shots \in {<<>>, <<ScoredShot(100, 100, 900)>>}
    /\ ipc = "start"
    /\ idx_cells = NoCells

\* No run list is being served.
IndexQuiet ==
    /\ other_shots = <<>>
    /\ ipc = "off"
    /\ idx_cells = NoCells

\* page_list: the rows of the runs tab.
PageList ==
    /\ ipc = "start"
    /\ ipc' = "done"
    /\ idx_cells' = [r \in ListedRuns |->
                        [ratio |-> ListRatio(RunRowOf(r)),
                         err_cell |-> ErrCell(ScoreMapGet(r))]]
    /\ UNCHANGED other_shots
    /\ UNCHANGED <<lineageVars, pageVars, storeVars, shotVars, catalogVars, queryVars, hookVars>>

ViewsNext == PageGameDetail \/ PageList

\* A counter of a run row; a missing or NULL counter counts as 0.
CounterOf(row, key) ==
    IF key \in DOMAIN row /\ row[key] # Null THEN row[key] ELSE 0

\* The cell is the percentage of rule decisions rounded to an integer (off by
\* at most one half), or the absent marker when there are no decisions.
RatioIsRight(row, cell) ==
    LET rd == CounterOf(row, "rule_decisions")
        td == rd + CounterOf(row, "llm_decisions")
    IN  IF td > 0
        THEN /\ cell.text = "%"
             /\ 2 * Abs(cell.n * td - rd * 100) <= td
        ELSE cell = NoRatio

\* C15: on the run detail page and on the run list the decision-source ratio
\* is rule_decisions / (rule_decisions + llm_decisions) in percent, rounded
\* to an integer, when the sum is positive, and the absent marker (never
\* "0%") when the sum is 0; a missing counter counts as 0.
C15_RatioOrAbsent ==
    /\ Rendered => RatioIsRight(page_run, ratio)
    /\ ipc = "done" =>
          \A r \in ListedRuns : RatioIsRight(RunRowOf(r), idx_cells[r].ratio)

\* 7 rule decisions and 3 LLM decisions: "70%" on both pages.
C15_Witness ==
    /\ gpc = "done"
    /\ ipc = "done"
    /\ page_run = RunStats(7, 3)
    /\ ratio = Percent(70)
    /\ idx_cells[1].ratio = Percent(70)

\* The class of num / den percent under the cut points 20% and 50%.
Bucket(num, den) ==
    IF num < 20 * den THEN "good"
    ELSE IF num < 50 * den THEN "ok"
    ELSE "bad"

\* The screenshots of a run that have both scores and a stored error.
Averaged(r) == SelectSeq(SelectSeq(ShotsOfRun(r), Qualifies), HasError)

\* C13: the per-item class of a stored error e and the per-run class of the
\* average absolute error a use the same cut points: good below 20%, ok from
\* 20% to below 50%, bad from 50% on, on the absolute value.
C13_SameCutPoints ==
    /\ Rendered =>
          \A i \in 1..Len(screenshots) :
              (score_bars[i].shown /\ screenshots[i].score_error # Null) =>
                  score_bars[i].err_cls = Bucket(Abs(screenshots[i].score_error), 10)
    /\ ipc = "done" =>
          \A r \in ListedRuns :
              (idx_cells[r].err_cell # NoErrCell /\ Len(Averaged(r)) > 0) =>
                  idx_cells[r].err_cell.err_cls =
                      Bucket(SumAbsErr(Averaged(r), Len(Averaged(r))),
                             10 * Len(Averaged(r)))

\* Errors 0.1, 0.3 and 0.9: the run is ok, the third item is bad.
C13_Witness ==
    /\ gpc = "done"
    /\ ipc = "done"
    /\ screenshots = << ScoredShot(100, 100, 100), ScoredShot(100, 100, 300),
                        ScoredShot(100, 100, 900) >>
    /\ idx_cells[1].err_cell.err_cls = "ok"
    /\ score_bars[3].err_cls = "bad"

\* C14: on the run list the score error cell of a run is absent exactly when
\* the run has no screenshot with both scores; otherwise it shows the count
\* of those screenshots, and the average and the maximum it shows are taken
\* over that same set.
C14_AggregateOverQualifying ==
    ipc = "done" =>
        \A r \in ListedRuns :
            LET q == SelectSeq(ShotsOfRun(r), Qualifies)
                cell == idx_cells[r].err_cell
            IN  /\ cell = NoErrCell <=> Len(q) = 0
                /\ Len(q) > 0 =>
                      /\ cell.cnt = Len(q)
                      /\ cell.avg_over = Len(q)

----------------------------------------------------------------------------
(* GET /api/runs: list_runs. The framework validates the declared query    *)
(* parameters before it calls the handler and passes no others to it.      *)

\* le=100 of per_page.
PerPageLimit == 100

\* An optional query parameter: not in the query string, or given.
Absent == <<>>
Given(v) == <<v>>
IsGiven(o) == Len(o) > 0
ValueOf(o) == o[1]

\* pattern of sort and of order.
SortKeys == {"played_at", "final_ante", "final_score", "created_at"}
Orders == {"asc", "desc"}

\* won: bool | None, from the text of the query string.
BoolTexts == {"true", "false"}
BoolOf(t) == t = "true"

\* The requests the model draws from. A request without sort or order gets
\* the default; seed is a field list_runs does not declare.
Pages == 0..MaxPage
PerPages == (0..MaxPerPage) \cup {20, PerPageLimit, PerPageLimit + 1}
Totals == (0..MaxTotal) \cup {95}
Requests ==
    [page : Pages,
     per_page : PerPages,
     sort : SortKeys \cup {"id"},
     order : Orders \cup {"up"},
     deck : {Absent, Given(""), Given("Red")},
     stake : {Absent, Given("White")},
     won : {Absent, Given("true"), Given("false"), Given("maybe")},
     seed : {Absent, Given("ABC")}]

\* The validation of the declared parameters: ge, le, pattern, bool.
Valid(req) ==
    /\ req.page >= 1
    /\ req.per_page >= 1
    /\ req.per_page <= PerPageLimit
    /\ req.sort \in SortKeys
    /\ req.order \in Orders
    /\ IsGiven(req.won) => ValueOf(req.won) \in BoolTexts

\* `if deck:` and `if stake:`
TruthyText(o) == IsGiven(o) /\ ValueOf(o) # ""

\* conditions, params and idx after one `if` block of the handler.
Filters0 == [conditions |-> <<>>, params |-> <<>>, idx |-> 1]

\* An `if` block that leaves idx as it is.
AddFilterSameIdx(st, applies, column, value) ==
    IF applies
    THEN [conditions |-> Append(st.conditions, <<column, st.idx>>),
          params |-> Append(st.params, value),
          idx |-> st.idx]
    ELSE st

AddFilter(st, applies, column, value) ==
    IF applies
    THEN [conditions |-> Append(st.conditions, <<column, st.idx>>),
          params |-> Append(st.params, value),
          idx |-> st.idx + 1]
    ELSE st

\* The three `if` blocks in their order.
FiltersOf(req) ==
    LET a == AddFilter(Filters0, TruthyText(req.deck), "deck",
                       IF IsGiven(req.deck) THEN ValueOf(req.deck) ELSE "")
        b == AddFilter(a, TruthyText(req.stake), "stake",
                       IF IsGiven(req.stake) THEN ValueOf(req.stake) ELSE "")
    IN  AddFilter(b, IsGiven(req.won), "won",
                  IsGiven(req.won) /\ BoolOf(ValueOf(req.won)))

\* The COUNT(*) statement and the row statement with their arguments.
CountQuery(req) ==
    [statement |-> "count", where |-> FiltersOf(req).conditions,
     args |-> FiltersOf(req).params]

\* offset = (page - 1) * per_page
OffsetOf(page, per_page) == (page - 1) * per_page

RowQuery(req) ==
    [statement |-> "rows", where |-> FiltersOf(req).conditions,
     order_by |-> <<req.sort, req.order>>,
     limit |-> FiltersOf(req).idx, offset |-> FiltersOf(req).idx + 1,
     args |-> FiltersOf(req).params \o <<req.per_page, OffsetOf(req.page, req.per_page)>>]

\* The number of pages by floor division.
PagesOfFloor(total, per_page) ==
    IF total # 0 THEN total \div per_page ELSE 0

\* (total + per_page - 1) // per_page if total else 0
PagesOf(total, per_page) ==
    IF total # 0 THEN (total + per_page - 1) \div per_page ELSE 0

NoAnswer == [status |-> 0]

QueryInit ==
    /\ q_req \in Requests
    /\ qpc = "recv"
    /\ q_sql = <<>>
    /\ q_total = 0
    /\ q_result = NoAnswer

\* No request to list_runs.
QueryQuiet ==
    /\ q_req = [page |-> 1, per_page |-> 20, sort |-> "played_at", order |-> "desc",
                deck |-> Absent, stake |-> Absent, won |-> Absent, seed |-> Absent]
    /\ qpc = "off"
    /\ q_sql = <<>>
    /\ q_total = 0
    /\ q_result = NoAnswer

\* The framework answers 422 and does not call the handler.
ListRunsReject ==
    /\ qpc = "recv"
    /\ ~Valid(q_req)
    /\ qpc' = "rejected"
    /\ q_result' = [status |-> 422]
    /\ UNCHANGED <<q_req, q_sql, q_total>>
    /\ UNCHANGED <<lineageVars, pageVars, storeVars, shotVars, catalogVars, indexVars, hookVars>>

\* list_runs up to its first await: the filters and the COUNT(*) statement.
ListRunsCount ==
    /\ qpc = "recv"
    /\ Valid(q_req)
    /\ q_sql' = Append(q_sql, CountQuery(q_req))
    /\ qpc' = "count"
    /\ UNCHANGED <<q_req, q_total, q_result>>
    /\ UNCHANGED <<lineageVars, pageVars, storeVars, shotVars, catalogVars, indexVars, hookVars>>

\* The count arrives; the row statement is sent.
ListRunsFetch ==
    /\ qpc = "count"
    /\ \E total \in Totals : q_total' = total
    /\ q_sql' = Append(q_sql, RowQuery(q_req))
    /\ qpc' = "fetch"
    /\ UNCHANGED <<q_req, q_result>>
    /\ UNCHANGED <<lineageVars, pageVars, storeVars, shotVars, catalogVars, indexVars, hookVars>>

\* The rows arrive; the answer.
ListRunsReturn ==
    /\ qpc = "fetch"
    /\ q_result' = [status |-> 200, total |-> q_total, page |-> q_req.page,
                    per_page |-> q_req.per_page,
                    pages |-> PagesOf(q_total, q_req.per_page)]
    /\ qpc' = "done"
    /\ UNCHANGED <<q_req, q_sql, q_total>>
    /\ UNCHANGED <<lineageVars, pageVars, storeVars, shotVars, catalogVars, indexVars, hookVars>>

QueryNext == ListRunsReject \/ ListRunsCount \/ ListRunsFetch \/ ListRunsReturn

\* The fields the request names.
NamedFields(req) ==
    {f \in {"deck", "stake", "won", "seed"} : IsGiven(req[f])}

\* C11: list_runs rejects, before any statement is sent to the storage, a
\* request whose sort key is not played_at, final_ante, final_score or
\* created_at, and a request that names a filter field other than deck,
\* stake and won.
C11_RejectsUnknownSortAndFilter ==
    (qpc # "recv" /\ (q_req.sort \notin SortKeys
                        \/ ~(NamedFields(q_req) \subseteq {"deck", "stake", "won"}))) =>
        /\ qpc = "rejected"
        /\ q_sql = <<>>

\* C12: the answer has pages = ceil(total / per_page), 0 when total is 0, and
\* the row statement gets offset (page - 1) * per_page.
C12_PagesAndOffset ==
    qpc = "done" =>
        LET n == q_result.pages
            pp == q_req.per_page
        IN  /\ q_total = 0 => n = 0
            /\ n * pp >= q_total
            /\ q_total > 0 => (n - 1) * pp < q_total
            /\ Len(q_sql) = 2
            /\ q_sql[2].args[q_sql[2].offset] = (q_req.page - 1) * pp
            /\ q_sql[2].args[q_sql[2].limit] = pp

\* total 95 and per_page 20: 5 pages; page 2 starts at offset 20.
C12_Witness ==
    /\ qpc = "done"
    /\ q_total = 95
    /\ q_req.per_page = 20
    /\ q_req.page = 2
    /\ q_result.pages = 5
    /\ q_sql[2].args[q_sql[2].offset] = 20

\* What the caller gave for a filter column: the text of deck and of stake,
\* the boolean of won.
CallerValue(f) ==
    IF f = "won" THEN ValueOf(q_req.won) = "true" ELSE ValueOf(q_req[f])

\* The filters a request applies: deck and stake when not empty, won when
\* given.
AppliedFields ==
    {f \in {"deck", "stake"} : IsGiven(q_req[f]) /\ ValueOf(q_req[f]) # ""}
        \cup {f \in {"won"} : IsGiven(q_req[f])}

\* C24: in every statement list_runs sends, the k-th condition compares a
\* fixed column with placeholder $k and the caller's value is argument k;
\* the conditions are those of the filters the request applies, in the order
\* deck, stake, won; the row statement has LIMIT $(n+1) and OFFSET $(n+2) with
\* n conditions and n + 2 arguments, and its sort key and direction are from
\* the allow-lists; the count statement has the same conditions and the same
\* first n arguments.
C24_FiltersAreBoundParameters ==
    \A j \in 1..Len(q_sql) :
        LET q == q_sql[j]
            n == Len(q.where)
        IN  /\ \A k \in 1..n :
                  /\ q.where[k][2] = k
                  /\ q.where[k][1] \in AppliedFields
                  /\ q.args[k] = CallerValue(q.where[k][1])
            /\ {q.where[k][1] : k \in 1..n} = AppliedFields
            /\ n = Cardinality(AppliedFields)
            /\ \A k \in 1..n : \A m \in 1..n :
                  (k < m) => <<q.where[k][1], q.where[m][1]>>
                                \in {<<"deck", "stake">>, <<"deck", "won">>, <<"stake", "won">>}
            /\ q.statement = "count" => Len(q.args) = n
            /\ q.statement = "rows" =>
                  /\ q.limit = n + 1
                  /\ q.offset = n + 2
                  /\ Len(q.args) = n + 2
                  /\ q.order_by[1] \in SortKeys
                  /\ q.order_by[2] \in Orders
                  /\ q_sql[1].statement = "count"
                  /\ q_sql[1].where = q.where
                  /\ q_sql[1].args = SubSeq(q.args, 1, n)

\* deck, stake and won all applied: $1, $2, $3, then LIMIT $4 OFFSET $5.
C24_Witness ==
    /\ qpc = "done"
    /\ Len(q_sql) = 2
    /\ Len(q_sql[2].where) = 3
    /\ q_sql[2].offset = 5


----------------------------------------------------------------------------
(* The deploy webhook (deploy-webhook.py): one HTTPServer, which serves one *)
(* request at a time. A header value is the sequence of the pieces it is   *)
(* written from.                                                           *)

WEBHOOK_SECRET == "balatro-deploy-2026"

\* f'Bearer {WEBHOOK_SECRET}'
BearerOf(secret) == <<"Bearer ", secret>>

Methods == {"POST", "GET"}
Paths == {"/deploy", "/"}

\* The Content-Length header: none, the length of the body that is sent,
\* text that is no number, or a number beyond the bytes the client sends.
ContentLengths == {"absent", "exact", "malformed", "beyond"}

\* The Authorization header: none (''), the expected one, and near misses.
AuthHeaders ==
    { <<>>,
      BearerOf(WEBHOOK_SECRET),
      BearerOf("guess"),
      <<"bearer ", WEBHOOK_SECRET>>,
      <<WEBHOOK_SECRET>>,
      <<"Bearer ", WEBHOOK_SECRET, "x">> }

DeployRequests ==
    [method : Methods, path : Paths, content_length : ContentLengths,
     auth : AuthHeaders]

\* The three subprocess.run calls in their order.
Commands == <<"git pull", "docker compose build", "docker compose up">>

\* subprocess.run(..., timeout, check=True): exit status 0, another exit
\* status (CalledProcessError) or the timeout (TimeoutExpired).
StepOutcomes == {"ok", "failed", "timeout"}

HookInit ==
    /\ h_req \in DeployRequests
    /\ hpc = "recv"
    /\ h_steps = <<>>
    /\ h_status = 0
    /\ h_served = 1

\* The webhook is not running.
HookQuiet ==
    /\ h_req = [method |-> "GET", path |-> "/", content_length |-> "absent",
                auth |-> <<>>]
    /\ hpc = "off"
    /\ h_steps = <<>>
    /\ h_status = 0
    /\ h_served = 0

\* Verify token: 403, or on to the first command.
VerifyToken ==
    IF h_req.auth # BearerOf(WEBHOOK_SECRET)
    THEN /\ h_status' = 403
         /\ hpc' = "done"
    ELSE /\ h_status' = 0
         /\ hpc' = "deploy"

\* A request arrives. The server answers 501 to a method the handler has
\* no do_ method for; do_POST answers 404 to another path, then reads the
\* body: int() raises on a Content-Length that is no number and the handler
\* ends without a response, and rfile.read waits while bytes are missing.
DoPost ==
    /\ hpc = "recv"
    /\ IF h_req.method # "POST"
       THEN h_status' = 501 /\ hpc' = "done"
       ELSE IF h_req.path # "/deploy"
       THEN h_status' = 404 /\ hpc' = "done"
       ELSE IF h_req.content_length = "malformed"
       THEN h_status' = 0 /\ hpc' = "raised"
       ELSE IF h_req.content_length = "beyond"
       THEN h_status' = 0 /\ hpc' = "reading"
       ELSE VerifyToken
    /\ UNCHANGED <<h_req, h_steps, h_served>>
    /\ UNCHANGED <<lineageVars, pageVars, storeVars, shotVars, catalogVars, indexVars, queryVars>>

\* The client closes its side: rfile.read returns what there was.
DoPostBodyEnds ==
    /\ hpc = "reading"
    /\ VerifyToken
    /\ UNCHANGED <<h_req, h_steps, h_served>>
    /\ UNCHANGED <<lineageVars, pageVars, storeVars, shotVars, catalogVars, indexVars, queryVars>>

\* The next subprocess.run returns or raises: after the third success the
\* handler sends 200, on an exception it sends 500.
RunStep(result) ==
    /\ hpc = "deploy"
    /\ Len(h_steps) < Len(Commands)
    /\ h_steps' = Append(h_steps, [cmd |-> Commands[Len(h_steps) + 1],
                                   outcome |-> result])
    /\ IF result # "ok"
       THEN h_status' = 500 /\ hpc' = "done"
       ELSE IF Len(h_steps) + 1 = Len(Commands)
       THEN h_status' = 200 /\ hpc' = "done"
       ELSE UNCHANGED <<h_status, hpc>>
    /\ UNCHANGED <<h_req, h_served>>
    /\ UNCHANGED <<lineageVars, pageVars, storeVars, shotVars, catalogVars, indexVars, queryVars>>

\* serve_forever takes the next request when the handler has returned or
\* raised.
ServeNext ==
    /\ hpc \in {"done", "raised"}
    /\ h_served < MaxRequests
    /\ h_req' \in DeployRequests
    /\ hpc' = "recv"
    /\ h_steps' = <<>>
    /\ h_status' = 0
    /\ h_served' = h_served + 1
    /\ UNCHANGED <<lineageVars, pageVars, storeVars, shotVars, catalogVars, indexVars, queryVars>>

DeployNext ==
    \/ DoPost
    \/ DoPostBodyEnds
    \/ \E result \in StepOutcomes : RunStep(result)
    \/ ServeNext

Authorized ==
    /\ h_req.method = "POST"
    /\ h_req.path = "/deploy"
    /\ h_req.auth = <<"Bearer ", WEBHOOK_SECRET>>

Succeeded(k) == h_steps[k].outcome = "ok"

\* The handler has returned or raised.
Handled == hpc \in {"done", "raised"}

\* C26: a command runs only for a POST to /deploy with the exact bearer
\* header; the commands run in the order git pull, docker compose build,
\* docker compose up, each only after every earlier one succeeded; 200 is
\* sent only when all three succeeded; and a handled POST is answered 404
\* for another path, 403 for /deploy with another Authorization header, and
\* 500 when a command failed.
C26_DeployOnlyWhenAuthorized ==
    /\ h_steps # <<>> => Authorized
    /\ Len(h_steps) <= 3
    /\ \A k \in 1..Len(h_steps) :
          /\ h_steps[k].cmd = <<"git pull", "docker compose build", "docker compose up">>[k]
          /\ \A j \in 1..(k - 1) : Succeeded(j)
    /\ h_status = 200 => (Len(h_steps) = 3 /\ \A k \in 1..3 : Succeeded(k))
    /\ (Handled /\ h_req.method = "POST") =>
          /\ h_req.path # "/deploy" => h_status = 404
          /\ (h_req.path = "/deploy" /\ ~Authorized) => h_status = 403
          /\ (\E k \in 1..Len(h_steps) : ~Succeeded(k)) => h_status = 500

----------------------------------------------------------------------------
(* The store: run 1 with its rounds and jokers, the handlers that write    *)
(* them, and get_run. Each writer is one connection serving one request;   *)
(* a handler's statements are separate steps, and what a transaction has   *)
(* written is seen by others only from its commit on. Statements run with  *)
(* the server's default isolation: each takes its snapshot when it starts. *)

Writers == 1..MaxWriters

\* best_hand_score: NULL (the form field is optional) or a score.
ScoreVals == {Null} \cup (1..MaxScore)

\* A list element without the required keys (r["ante"] raises KeyError).
BadElem == -2
\* A list element with its keys and no score of its own (a joker).
JokerElem == 0

\* The serial id of the row that writer w inserts next. Ids are distinct
\* values and nothing reads their order, so each connection draws from its
\* own residue class.
NextId(w) == next_id[w] * MaxWriters + w

RoundRow(i, score) == [id |-> i, best_hand_score |-> score]
JokerRow(i) == [id |-> i]

\* The run row; id is NULL while the run does not exist.
NoRun == [id |-> Null, final_score |-> Null, joker_count |-> Null]
RunRow(fs, jc) == [id |-> 1, final_score |-> fs, joker_count |-> jc]
RunExists == run.id # Null

\* SELECT MAX(best_hand_score) over a set of round rows: NULLs are skipped,
\* and the result is NULL when nothing is left.
SqlMax(rows) ==
    LET vals == {r.best_hand_score : r \in rows} \ {Null}
    IN  IF vals = {} THEN Null
        ELSE CHOOSE m \in vals : \A v \in vals : v <= m

\* SELECT COUNT(*)
SqlCount(rows) == Cardinality(rows)

InTransaction(w) == wpc[w] \in {"insert", "sync", "apply", "commit"}
OnRounds(w) == kind[w] \in {"add_round", "add_rounds_batch"}
OnJokers(w) == kind[w] \in {"add_jokers_batch"}

\* The rows of writer w's open transaction.
Pending(w) == IF InTransaction(w) THEN written[w] ELSE {}

\* The rounds a statement sees that runs on the pool, outside w's
\* transaction: the committed ones only.
RoundsSeenOutside(w) == rounds

\* The rounds a statement of w's transaction sees: the committed ones and
\* its own.
RoundsSeenBy(w) == IF OnRounds(w) THEN rounds \cup Pending(w) ELSE rounds
JokersSeenBy(w) == IF OnJokers(w) THEN jokers \cup Pending(w) ELSE jokers

\* No screenshot is stored and neither delete_run nor upload_screenshot runs.
ShotsQuiet ==
    /\ shot_rows = {}
    /\ files = {}
    /\ run_dir = FALSE
    /\ next_file = 0
    /\ dpc = "off"
    /\ d_result = "pending"
    /\ d_list = {}
    /\ upc = "off"
    /\ u_file = Null
    /\ u_result = "pending"

StoreInit ==
    /\ run = NoRun
    /\ rounds = {}
    /\ jokers = {}
    /\ next_id = [w \in Writers |-> 0]
    /\ row_lock = 0
    /\ wpc = [w \in Writers |-> "idle"]
    /\ kind = [w \in Writers |-> "none"]
    /\ todo = [w \in Writers |-> 0]
    /\ written = [w \in Writers |-> {}]
    /\ agg = [w \in Writers |-> Null]
    /\ rpc = "idle"
    /\ view_run = NoRun
    /\ view_jokers = {}
    /\ view_rounds = {}
    /\ p_result = NoAnswer
    /\ p_sent = 0

\* Nothing is stored and no handler of the store runs.
StoreQuiet ==
    /\ run = NoRun
    /\ rounds = {}
    /\ jokers = {}
    /\ next_id = [w \in Writers |-> 0]
    /\ row_lock = 0
    /\ wpc = [w \in Writers |-> "off"]
    /\ kind = [w \in Writers |-> "none"]
    /\ todo = [w \in Writers |-> 0]
    /\ written = [w \in Writers |-> {}]
    /\ agg = [w \in Writers |-> Null]
    /\ rpc = "off"
    /\ view_run = NoRun
    /\ view_jokers = {}
    /\ view_rounds = {}
    /\ p_result = NoAnswer
    /\ p_sent = 0

\* create_run: INSERT INTO balatro_runs ... RETURNING *, with the form's
\* final_score (optional) and the column default of joker_count.
CreateRun(fs) ==
    /\ ~RunExists
    /\ \A w \in Writers : wpc[w] = "idle"
    /\ run' = RunRow(fs, 0)
    /\ UNCHANGED <<rounds, jokers, next_id, row_lock>>
    /\ UNCHANGED <<writerVars, readerVars, patchVars, lineageVars, pageVars, shotVars, catalogVars, indexVars, queryVars, hookVars>>

\* The columns patch_run may set, as far as the run row is modelled.
Allowed == {"final_score"}
BodyKeys == {"final_score", "joker_count"}

\* A JSON text where the column is a number: the driver refuses to encode
\* it for the statement's parameter and raises.
JsonText == -3
Bodies == UNION {[K -> ScoreVals \cup {JsonText}] : K \in SUBSET BodyKeys}

\* The path parameter: the id of the run, or an id no row has.
PatchIds == {1, 2}

\* fields = {k: v for k, v in body.items() if k in allowed}
FieldsOf(body) == [k \in (DOMAIN body) \cap Allowed |-> body[k]]

\* patch_run: 400 when the body names no allow-listed field; else one UPDATE
\* of the fields WHERE id = run_id, which raises when a value cannot be
\* encoded (500), and 404 when it returns no row.
PatchRun(run_id, body) ==
    /\ \A w \in Writers : wpc[w] = "idle"
    /\ LET fields == FieldsOf(body)
       IN  IF DOMAIN fields = {}
           THEN /\ p_result' = [status |-> 400]
                /\ p_sent' = 0
                /\ UNCHANGED run
           ELSE IF \E k \in DOMAIN fields : fields[k] = JsonText
           THEN /\ p_result' = [status |-> 500]
                /\ p_sent' = 1
                /\ UNCHANGED run
           ELSE IF run.id # run_id
           THEN /\ p_result' = [status |-> 404]
                /\ p_sent' = 1
                /\ UNCHANGED run
           ELSE /\ p_result' = [status |-> 200]
                /\ p_sent' = 1
                /\ run' = [c \in DOMAIN run |->
                             IF c \in DOMAIN fields THEN fields[c] ELSE run[c]]
    /\ UNCHANGED <<rounds, jokers, next_id, row_lock>>
    /\ UNCHANGED <<writerVars, readerVars, lineageVars, pageVars, shotVars, catalogVars, indexVars, queryVars, hookVars>>

\* The rows that are inserted or that open requests may still insert.
RECURSIVE TodoOf(_)
TodoOf(W) ==
    IF W = {} THEN 0
    ELSE LET w == CHOOSE x \in W : TRUE IN todo[w] + TodoOf(W \ {w})

RECURSIVE DrawnOf(_)
DrawnOf(W) ==
    IF W = {} THEN 0
    ELSE LET w == CHOOSE x \in W : TRUE IN next_id[w] + DrawnOf(W \ {w})

Reserved == TodoOf(Writers) + DrawnOf(Writers)

\* A request with a list of n elements reaches its handler, which opens its
\* transaction. The elements are read one by one as the loop reaches them.
Begin(w, k, n) ==
    /\ wpc[w] = "idle"
    /\ Reserved + n <= MaxRows
    /\ kind' = [kind EXCEPT ![w] = k]
    /\ todo' = [todo EXCEPT ![w] = n]
    /\ written' = [written EXCEPT ![w] = {}]
    /\ agg' = [agg EXCEPT ![w] = Null]
    /\ wpc' = [wpc EXCEPT ![w] = IF n = 0 THEN "sync" ELSE "insert"]
    /\ UNCHANGED <<dbVars, readerVars, patchVars, lineageVars, pageVars, shotVars, catalogVars, indexVars, queryVars, hookVars>>

\* add_round: the form has been validated, there is one element.
AddRound(w) == Begin(w, "add_round", 1)

\* add_rounds_batch: any list of dicts.
AddRoundsBatch(w, n) == Begin(w, "add_rounds_batch", n)

\* add_jokers_batch: any list of dicts.
AddJokersBatch(w, n) == Begin(w, "add_jokers_batch", n)

\* What the next element of w's list can be.
ElemsOf(w) ==
    IF kind[w] = "add_round" THEN ScoreVals
    ELSE IF kind[w] = "add_rounds_batch" THEN ScoreVals \cup {BadElem}
    ELSE {JokerElem, BadElem}

\* The next INSERT of the handler, as a statement on the pool would run it:
\* committed on its own.
InsertRowAutocommit(w, e) ==
    /\ wpc[w] = "insert"
    /\ e \in ElemsOf(w)
    /\ LET row == IF OnRounds(w) THEN RoundRow(NextId(w), e) ELSE JokerRow(NextId(w))
       IN  IF e = BadElem \/ ~RunExists
           THEN /\ wpc' = [wpc EXCEPT ![w] = "failed"]
                /\ todo' = [todo EXCEPT ![w] = 0]
                /\ UNCHANGED <<written, next_id, rounds, jokers>>
           ELSE /\ written' = [written EXCEPT ![w] = @ \cup {row}]
                /\ rounds' = IF OnRounds(w) THEN rounds \cup {row} ELSE rounds
                /\ jokers' = IF OnJokers(w) THEN jokers \cup {row} ELSE jokers
                /\ next_id' = [next_id EXCEPT ![w] = @ + 1]
                /\ todo' = [todo EXCEPT ![w] = @ - 1]
                /\ wpc' = [wpc EXCEPT ![w] = IF todo[w] = 1 THEN "sync" ELSE "insert"]
    /\ UNCHANGED <<run, row_lock, kind, agg>>
    /\ UNCHANGED <<readerVars, patchVars, lineageVars, pageVars, shotVars, catalogVars, indexVars, queryVars, hookVars>>

\* The next INSERT of the handler, inside its transaction, for list element
\* e. A missing key raises before the statement is sent and a missing run
\* violates the foreign key: the exception leaves the transaction block,
\* which rolls back.
InsertRow(w, e) ==
    /\ wpc[w] = "insert"
    /\ e \in ElemsOf(w)
    /\ LET row == IF OnRounds(w) THEN RoundRow(NextId(w), e) ELSE JokerRow(NextId(w))
       IN  IF e = BadElem \/ ~RunExists
           THEN /\ wpc' = [wpc EXCEPT ![w] = "failed"]
                /\ todo' = [todo EXCEPT ![w] = 0]
                /\ UNCHANGED <<written, next_id>>
           ELSE /\ written' = [written EXCEPT ![w] = @ \cup {row}]
                /\ next_id' = [next_id EXCEPT ![w] = @ + 1]
                /\ todo' = [todo EXCEPT ![w] = @ - 1]
                /\ wpc' = [wpc EXCEPT ![w] = IF todo[w] = 1 THEN "sync" ELSE "insert"]
    /\ UNCHANGED <<run, rounds, jokers, row_lock, kind, agg>>
    /\ UNCHANGED <<readerVars, patchVars, lineageVars, pageVars, shotVars, catalogVars, indexVars, queryVars, hookVars>>

\* The aggregate UPDATE starts: its subquery is evaluated on the statement's
\* snapshot (_sync_final_score, or the joker_count UPDATE).
SyncSnapshot(w) ==
    /\ wpc[w] = "sync"
    /\ agg' = [agg EXCEPT ![w] =
                 IF OnRounds(w) THEN SqlMax(RoundsSeenBy(w))
                 ELSE SqlCount(JokersSeenBy(w))]
    /\ wpc' = [wpc EXCEPT ![w] = "apply"]
    /\ UNCHANGED <<dbVars, kind, todo, written, readerVars, patchVars, lineageVars, pageVars, shotVars, catalogVars, indexVars, queryVars, hookVars>>

\* The aggregate UPDATE writes the run row: it waits while another open
\* transaction has updated the row, then writes the value it computed.
SyncApply(w) ==
    /\ wpc[w] = "apply"
    /\ row_lock = 0
    /\ row_lock' = IF RunExists THEN w ELSE 0
    /\ wpc' = [wpc EXCEPT ![w] = "commit"]
    /\ UNCHANGED <<run, rounds, jokers, next_id>>
    /\ UNCHANGED <<kind, todo, written, agg, readerVars, patchVars, lineageVars, pageVars, shotVars, catalogVars, indexVars, queryVars, hookVars>>

\* The transaction block is left without exception: COMMIT.
Commit(w) ==
    /\ wpc[w] = "commit"
    /\ rounds' = IF OnRounds(w) THEN rounds \cup written[w] ELSE rounds
    /\ jokers' = IF OnJokers(w) THEN jokers \cup written[w] ELSE jokers
    /\ run' = IF row_lock # w THEN run
              ELSE IF OnRounds(w) THEN [run EXCEPT !.final_score = agg[w]]
              ELSE [run EXCEPT !.joker_count = agg[w]]
    /\ row_lock' = IF row_lock = w THEN 0 ELSE row_lock
    /\ wpc' = [wpc EXCEPT ![w] = "done"]
    /\ UNCHANGED <<next_id, kind, todo, written, agg>>
    /\ UNCHANGED <<readerVars, patchVars, lineageVars, pageVars, shotVars, catalogVars, indexVars, queryVars, hookVars>>

\* The response is sent and the connection goes back to the pool.
Return(w) ==
    /\ wpc[w] \in {"done", "failed"}
    /\ wpc' = [wpc EXCEPT ![w] = "idle"]
    /\ kind' = [kind EXCEPT ![w] = "none"]
    /\ todo' = [todo EXCEPT ![w] = 0]
    /\ written' = [written EXCEPT ![w] = {}]
    /\ agg' = [agg EXCEPT ![w] = Null]
    /\ UNCHANGED <<dbVars, readerVars, patchVars, lineageVars, pageVars, shotVars, catalogVars, indexVars, queryVars, hookVars>>

\* add_joker: the form has been validated; the handler runs its two
\* statements on the pool, each in its own transaction.
AddJoker(w) ==
    /\ wpc[w] = "idle"
    /\ Reserved + 1 <= MaxRows
    /\ kind' = [kind EXCEPT ![w] = "add_joker"]
    /\ todo' = [todo EXCEPT ![w] = 1]
    /\ written' = [written EXCEPT ![w] = {}]
    /\ agg' = [agg EXCEPT ![w] = Null]
    /\ wpc' = [wpc EXCEPT ![w] = "joker_insert"]
    /\ UNCHANGED <<dbVars, readerVars, patchVars, lineageVars, pageVars, shotVars, catalogVars, indexVars, queryVars, hookVars>>

\* add_joker, first statement: the INSERT, committed when it returns. A
\* missing run violates the foreign key and the handler raises.
AddJokerInsert(w) ==
    /\ wpc[w] = "joker_insert"
    /\ IF ~RunExists
       THEN /\ wpc' = [wpc EXCEPT ![w] = "failed"]
            /\ todo' = [todo EXCEPT ![w] = 0]
            /\ UNCHANGED <<written, next_id, jokers>>
       ELSE /\ jokers' = jokers \cup {JokerRow(NextId(w))}
            /\ written' = [written EXCEPT ![w] = @ \cup {JokerRow(NextId(w))}]
            /\ next_id' = [next_id EXCEPT ![w] = @ + 1]
            /\ todo' = [todo EXCEPT ![w] = @ - 1]
            /\ wpc' = [wpc EXCEPT ![w] = "joker_count"]
    /\ UNCHANGED <<run, rounds, row_lock, kind, agg>>
    /\ UNCHANGED <<readerVars, patchVars, lineageVars, pageVars, shotVars, catalogVars, indexVars, queryVars, hookVars>>

\* add_joker, second statement: the UPDATE starts and its COUNT(*) subquery
\* is evaluated on the statement's snapshot, the committed rows.
AddJokerCount(w) ==
    /\ wpc[w] = "joker_count"
    /\ agg' = [agg EXCEPT ![w] = SqlCount(jokers)]
    /\ wpc' = [wpc EXCEPT ![w] = "joker_update"]
    /\ UNCHANGED <<dbVars, kind, todo, written, readerVars, patchVars, lineageVars, pageVars, shotVars, catalogVars, indexVars, queryVars, hookVars>>

\* The UPDATE writes the run row with the count it computed, once no open
\* transaction holds the row, and is committed when it returns.
AddJokerUpdate(w) ==
    /\ wpc[w] = "joker_update"
    /\ row_lock = 0
    /\ run' = IF RunExists THEN [run EXCEPT !.joker_count = agg[w]] ELSE run
    /\ wpc' = [wpc EXCEPT ![w] = "done"]
    /\ UNCHANGED <<rounds, jokers, next_id, row_lock>>
    /\ UNCHANGED <<kind, todo, written, agg, readerVars, patchVars, lineageVars, pageVars, shotVars, catalogVars, indexVars, queryVars, hookVars>>

\* get_run, first statement: the run row (404 when there is none).
GetRunRow ==
    /\ rpc = "idle"
    /\ view_run' = run
    /\ view_jokers' = {}
    /\ view_rounds' = {}
    /\ rpc' = IF RunExists THEN "jokers" ELSE "done"
    /\ UNCHANGED <<dbVars, writerVars, patchVars, lineageVars, pageVars, shotVars, catalogVars, indexVars, queryVars, hookVars>>

\* get_run, second statement: the jokers.
GetRunJokers ==
    /\ rpc = "jokers"
    /\ view_jokers' = jokers
    /\ rpc' = "rounds"
    /\ UNCHANGED <<view_run, view_rounds, dbVars, writerVars, patchVars, lineageVars, pageVars, shotVars, catalogVars, indexVars, queryVars, hookVars>>

\* get_run, third statement: the rounds; the remaining statements read
\* tables that are not modelled here, and the view is returned.
GetRunRounds ==
    /\ rpc = "rounds"
    /\ view_rounds' = rounds
    /\ rpc' = "done"
    /\ UNCHANGED <<view_run, view_jokers, dbVars, writerVars, patchVars, lineageVars, pageVars, shotVars, catalogVars, indexVars, queryVars, hookVars>>

WriterStep(w) ==
    \/ AddRound(w)
    \/ \E n \in 0..MaxBatch : AddRoundsBatch(w, n)
    \/ \E n \in 0..MaxBatch : AddJokersBatch(w, n)
    \/ \E e \in ScoreVals \cup {JokerElem, BadElem} : InsertRow(w, e)
    \/ SyncSnapshot(w)
    \/ SyncApply(w)
    \/ Commit(w)

\* add_joker requests side by side on the run, one after the other on each
\* connection.
JokerNext ==
    \E w \in Writers :
        \/ AddJoker(w)
        \/ AddJokerInsert(w)
        \/ AddJokerCount(w)
        \/ AddJokerUpdate(w)
        \/ Return(w)

\* One connection at a time: the calls follow each other.
SeqNext ==
    \/ \E fs \in ScoreVals : CreateRun(fs)
    \/ \E run_id \in PatchIds : \E body \in Bodies : PatchRun(run_id, body)
    \/ WriterStep(1)
    \/ Return(1)

\* Writers side by side on the run.
ConcNext == \E w \in Writers : WriterStep(w)

\* One writer after the other, and a get_run beside them.
ReadNext ==
    \/ WriterStep(1)
    \/ Return(1)
    \/ GetRunRow
    \/ GetRunJokers
    \/ GetRunRounds

\* The store before the first call.
InitSeq == StoreInit /\ LineageQuiet /\ PageQuiet /\ ShotsQuiet /\ CatalogQuiet /\ IndexQuiet /\ QueryQuiet /\ HookQuiet

\* The store after create_run with the form's defaults.
StoreWithRun ==
    /\ run = RunRow(Null, 0)
    /\ rounds = {}
    /\ jokers = {}
    /\ next_id = [w \in Writers |-> 0]
    /\ row_lock = 0
    /\ wpc = [w \in Writers |-> "idle"]
    /\ kind = [w \in Writers |-> "none"]
    /\ todo = [w \in Writers |-> 0]
    /\ written = [w \in Writers |-> {}]
    /\ agg = [w \in Writers |-> Null]
    /\ rpc = "idle"
    /\ view_run = NoRun
    /\ view_jokers = {}
    /\ view_rounds = {}
    /\ p_result = NoAnswer
    /\ p_sent = 0

InitConc == StoreWithRun /\ LineageQuiet /\ PageQuiet /\ ShotsQuiet /\ CatalogQuiet /\ IndexQuiet /\ QueryQuiet /\ HookQuiet

\* v is the maximum best_hand_score of the rows: no row has a larger score
\* and some row has it; NULL when no row has a score.
IsMaxScore(v, rows) ==
    LET vals == {r.best_hand_score : r \in rows} \ {Null}
    IN  IF vals = {} THEN v = Null
        ELSE v \in vals /\ \A x \in vals : x <= v

\* The aggregate fs covers score x (NULL scores need no cover).
Covers(fs, x) == x = Null \/ (fs # Null /\ x <= fs)

\* C1: whenever the run has a round, its final_score is the maximum
\* best_hand_score of its rounds.
C1_FinalScoreIsMax ==
    rounds # {} => IsMaxScore(run.final_score, rounds)

\* C2: the view get_run returns holds no round whose best_hand_score is
\* above the final_score of the run row in the same view.
C2_ViewHasAggregate ==
    rpc = "done" =>
        \A r \in view_rounds : Covers(view_run.final_score, r.best_hand_score)

IsBatch(w) == kind[w] \in {"add_rounds_batch", "add_jokers_batch"}

\* The rows of w's list that other connections see.
CommittedOf(w) ==
    IF OnRounds(w) THEN {r \in rounds : r \in written[w]}
    ELSE IF OnJokers(w) THEN {r \in jokers : r \in written[w]}
    ELSE {}

\* C7, the states: of a batch, other connections see no row until the
\* handler is done and every row then; a failed batch leaves no row.
BatchAllOrNothing ==
    \A w \in Writers :
        IsBatch(w) =>
            /\ wpc[w] # "done" => CommittedOf(w) = {}
            /\ wpc[w] = "done" => (CommittedOf(w) = written[w] /\ todo[w] = 0)

\* C7, the steps: the step that shows the rows writes the aggregate that
\* was recomputed with them, and the step that fails changes nothing others
\* see.
BatchStep ==
    \A w \in Writers :
        IsBatch(w) =>
            /\ (wpc[w] # "done" /\ wpc'[w] = "done" /\ OnRounds(w)) =>
                  /\ run'.final_score = agg[w]
                  /\ \A r \in written[w] :
                        Covers(run'.final_score, r.best_hand_score)
            /\ (wpc[w] # "done" /\ wpc'[w] = "done" /\ OnJokers(w)) =>
                  /\ run'.joker_count = agg[w]
                  /\ run'.joker_count >= Cardinality(written[w])
            /\ (wpc[w] # "failed" /\ wpc'[w] = "failed") =>
                  UNCHANGED <<run, rounds, jokers>>

\* C7: add_rounds_batch and add_jokers_batch are all-or-nothing for every
\* other connection, aggregate included, and a batch with a failing element
\* leaves neither rows nor a changed aggregate.
C7_BatchAtomic == []BatchAllOrNothing /\ [][BatchStep]_vars

\* One batch failed at its second element and another is there whole.
C7_Witness ==
    \E w1, w2 \in Writers :
        /\ IsBatch(w1) /\ wpc[w1] = "failed" /\ written[w1] # {}
        /\ IsBatch(w2) /\ wpc[w2] = "done" /\ Cardinality(written[w2]) = 2
        /\ CommittedOf(w2) = written[w2]

\* C8: once every one of the concurrent add_round / add_rounds_batch
\* transactions, each of which inserted a round, has committed, final_score
\* is the maximum best_hand_score of all rounds.
C8_MaxAfterAllCommitted ==
    (\A w \in Writers :
        /\ OnRounds(w) /\ wpc[w] = "done" /\ written[w] # {}
        /\ \A r \in written[w] : r.best_hand_score # Null)
        => IsMaxScore(run.final_score, rounds)

\* The scores of the rows are all below m (or NULL).
AllBelow(rows, m) == \A r \in rows : r.best_hand_score = Null \/ r.best_hand_score < m

\* C9, the commit of add_round or add_rounds_batch with no other writer:
\* afterwards final_score is the maximum over all rounds, whatever it was;
\* when it was the maximum of the existing rounds and every new score is
\* below it, it stays.
RoundCommitStep ==
    (wpc[1] = "commit" /\ wpc'[1] = "done" /\ OnRounds(1)) =>
        /\ IsMaxScore(run'.final_score, rounds')
        /\ (/\ rounds # {}
            /\ run.final_score # Null
            /\ IsMaxScore(run.final_score, rounds)
            /\ AllBelow(written[1], run.final_score))
              => run'.final_score = run.final_score

\* C9: with no concurrent writer, a committed add_round / add_rounds_batch
\* leaves final_score at the maximum best_hand_score of all rounds of the
\* run, whatever final_score was before; a round below the current maximum
\* leaves it unchanged.
C9_CommitSetsMax == [][RoundCommitStep]_vars

\* Two rounds with maximum 2, then add_round with score 1: final_score 2.
C9_Witness ==
    /\ wpc[1] = "done" /\ kind[1] = "add_round"
    /\ Cardinality(rounds) = 3
    /\ \E r \in written[1] : r.best_hand_score = 1
    /\ run.final_score = 2

\* What C25 says of one patch_run call on run_id with body: without an
\* allow-listed field it answers 400, passes no statement to the pool and
\* leaves the run as it is; with one it changes no other column, and it
\* answers 404 and changes nothing when no run has the id.
PatchContract(run_id, body) ==
    LET named == (DOMAIN body) \cap Allowed
    IN  /\ named = {} =>
              /\ p_result'.status = 400
              /\ p_sent' = 0
              /\ run' = run
        /\ named # {} =>
              \A c \in (DOMAIN run) \ named : run'[c] = run[c]
        /\ (named # {} /\ run.id # run_id) =>
              /\ p_result'.status = 404
              /\ run' = run

\* C25: every patch_run call keeps that contract.
C25_PatchRunContract ==
    [][\A run_id \in PatchIds : \A body \in Bodies :
          PatchRun(run_id, body) => PatchContract(run_id, body)]_vars

\* Every add_joker request has been answered.
JokersAnswered == \A w \in Writers : wpc[w] \in {"idle", "done"}

\* C22: in every committed state, which is what a reader's statement sees,
\* the run's joker_count is the number of its joker rows; in particular
\* once every add_joker request has been answered.
C22_JokerCountIsRowCount ==
    /\ RunExists => run.joker_count = Cardinality(jokers)
    /\ (RunExists /\ JokersAnswered) => run.joker_count = Cardinality(jokers)

----------------------------------------------------------------------------
(* delete_run and upload_screenshot on run 1. Each await of a handler ends *)
(* a step; the code between two awaits runs without interruption.          *)

\* f"{run_id}/{uuid.uuid4().hex}{ext}": a new name every time.
NewFile == next_file + 1

\* The run with child rows, and with screenshots whose files are on disk.
ShotsInit ==
    /\ run = RunRow(Null, 0)
    /\ rounds \in {{}, {RoundRow(1, 1)}}
    /\ jokers \in {{}, {JokerRow(2)}}
    /\ next_id = [w \in Writers |-> 1]
    /\ row_lock = 0
    /\ wpc = [w \in Writers |-> "off"]
    /\ kind = [w \in Writers |-> "none"]
    /\ todo = [w \in Writers |-> 0]
    /\ written = [w \in Writers |-> {}]
    /\ agg = [w \in Writers |-> Null]
    /\ rpc = "off"
    /\ view_run = NoRun
    /\ view_jokers = {}
    /\ view_rounds = {}
    /\ p_result = NoAnswer
    /\ p_sent = 0
    /\ \E n \in 0..1 :
          /\ shot_rows = 1..n
          /\ files = 1..n
          /\ run_dir = (n > 0)
          /\ next_file = n
    /\ dpc = "idle"
    /\ d_result = "pending"
    /\ d_list = {}
    /\ upc = "idle"
    /\ u_file = Null
    /\ u_result = "pending"

\* delete_run: SELECT id FROM balatro_runs; 404 when there is no row.
DeleteCheck ==
    /\ dpc = "idle"
    /\ IF RunExists
       THEN dpc' = "list" /\ UNCHANGED d_result
       ELSE dpc' = "done" /\ d_result' = "NotFound"
    /\ UNCHANGED <<d_list, diskVars, uploadVars>>
    /\ UNCHANGED <<lineageVars, pageVars, storeVars, catalogVars, indexVars, queryVars, hookVars>>

\* delete_run: SELECT filename FROM balatro_screenshots, then the loop that
\* unlinks each of these files that exists.
DeleteFiles ==
    /\ dpc = "list"
    /\ d_list' = shot_rows
    /\ files' = files \ shot_rows
    /\ dpc' = "row"
    /\ UNCHANGED <<shot_rows, run_dir, next_file, d_result, uploadVars>>
    /\ UNCHANGED <<lineageVars, pageVars, storeVars, catalogVars, indexVars, queryVars, hookVars>>

\* delete_run: DELETE FROM balatro_runs; the cascade deletes the child rows.
DeleteRow ==
    /\ dpc = "row"
    /\ run' = NoRun
    /\ rounds' = {}
    /\ jokers' = {}
    /\ shot_rows' = {}
    /\ dpc' = "rmdir"
    /\ UNCHANGED <<next_id, row_lock, writerVars, readerVars, patchVars>>
    /\ UNCHANGED <<files, run_dir, next_file, d_result, d_list, uploadVars>>
    /\ UNCHANGED <<lineageVars, pageVars, catalogVars, indexVars, queryVars, hookVars>>

\* delete_run: the run directory is removed when it is empty, and the
\* handler answers {"deleted": True}.
DeleteFinish ==
    /\ dpc = "rmdir"
    /\ run_dir' = IF run_dir /\ files = {} THEN FALSE ELSE run_dir
    /\ dpc' = "done"
    /\ d_result' = "deleted"
    /\ UNCHANGED <<shot_rows, files, next_file, d_list, uploadVars>>
    /\ UNCHANGED <<lineageVars, pageVars, storeVars, catalogVars, indexVars, queryVars, hookVars>>

\* upload_screenshot: SELECT id FROM balatro_runs; 404 when there is no row.
UploadCheck ==
    /\ upc = "idle"
    /\ next_file < MaxUploads
    /\ IF RunExists
       THEN upc' = "read" /\ u_result' = "pending"
       ELSE upc' = "done" /\ u_result' = "NotFound"
    /\ u_file' = Null
    /\ UNCHANGED <<diskVars, deleteVars>>
    /\ UNCHANGED <<lineageVars, pageVars, storeVars, catalogVars, indexVars, queryVars, hookVars>>

\* upload_screenshot: the content has been read; the run directory is made
\* and the filename chosen.
UploadMkdir ==
    /\ upc = "read"
    /\ run_dir' = TRUE
    /\ u_file' = NewFile
    /\ next_file' = NewFile
    /\ upc' = "write"
    /\ UNCHANGED <<shot_rows, files, u_result, deleteVars>>
    /\ UNCHANGED <<lineageVars, pageVars, storeVars, catalogVars, indexVars, queryVars, hookVars>>

\* upload_screenshot: the file is opened and written; opening fails when
\* the directory is gone.
UploadWrite ==
    /\ upc = "write"
    /\ IF run_dir
       THEN /\ files' = files \cup {u_file}
            /\ upc' = "insert"
            /\ UNCHANGED u_result
       ELSE /\ upc' = "done"
            /\ u_result' = "error"
            /\ UNCHANGED files
    /\ UNCHANGED <<shot_rows, run_dir, next_file, u_file, deleteVars>>
    /\ UNCHANGED <<lineageVars, pageVars, storeVars, catalogVars, indexVars, queryVars, hookVars>>

\* upload_screenshot: INSERT INTO balatro_screenshots; without the run the
\* foreign key rejects the row, and the handler has no cleanup.
UploadInsert ==
    /\ upc = "insert"
    /\ IF RunExists
       THEN shot_rows' = shot_rows \cup {u_file} /\ u_result' = "ok"
       ELSE UNCHANGED shot_rows /\ u_result' = "error"
    /\ upc' = "done"
    /\ UNCHANGED <<files, run_dir, next_file, u_file, deleteVars>>
    /\ UNCHANGED <<lineageVars, pageVars, storeVars, catalogVars, indexVars, queryVars, hookVars>>

\* The next upload_screenshot request arrives.
UploadAgain ==
    /\ upc = "done"
    /\ next_file < MaxUploads
    /\ upc' = "idle"
    /\ UNCHANGED <<u_file, u_result, diskVars, deleteVars>>
    /\ UNCHANGED <<lineageVars, pageVars, storeVars, catalogVars, indexVars, queryVars, hookVars>>

ShotsNext ==
    \/ DeleteCheck
    \/ DeleteFiles
    \/ DeleteRow
    \/ DeleteFinish
    \/ UploadCheck
    \/ UploadMkdir
    \/ UploadWrite
    \/ UploadInsert
    \/ UploadAgain

InitShots == ShotsInit /\ LineageQuiet /\ PageQuiet /\ CatalogQuiet /\ IndexQuiet /\ QueryQuiet /\ HookQuiet

\* C10: once delete_run has answered success, the run row, its child rows
\* and the screenshot files of the run are all gone.
C10_DeleteLeavesNothing ==
    (dpc = "done" /\ d_result = "deleted") =>
        /\ ~RunExists
        /\ rounds = {} /\ jokers = {} /\ shot_rows = {}
        /\ files = {}

----------------------------------------------------------------------------
(* Specifications                                                           *)

\* The calls on one run, one after the other.
SpecSeq == InitSeq /\ [][SeqNext]_vars

\* Concurrent writers on one run.
SpecConc == InitConc /\ [][ConcNext]_vars

\* get_run beside a writer.
SpecRead == InitConc /\ [][ReadNext]_vars

\* add_joker requests beside each other.
SpecJoker == InitConc /\ [][JokerNext]_vars

\* delete_run beside upload_screenshot requests.
SpecShots == InitShots /\ [][ShotsNext]_vars

\* The strategy page. The handler is one coroutine: each of its awaits
\* completes and it goes on.
InitLineage == LineageInit /\ PageQuiet /\ StoreQuiet /\ ShotsQuiet /\ CatalogQuiet /\ IndexQuiet /\ QueryQuiet /\ HookQuiet

SpecLineage ==
    /\ InitLineage
    /\ [][LineageNext]_vars
    /\ WF_vars(LineageNext)

\* The run detail page over every screenshot sequence.
InitPage == PageInit /\ LineageQuiet /\ StoreQuiet /\ ShotsQuiet /\ CatalogQuiet /\ IndexQuiet /\ QueryQuiet /\ HookQuiet

SpecPage == InitPage /\ [][PageNext]_vars

\* The run detail page and the run list of runs with scores, or of a run
\* with decision counters.
ScoresInit ==
    /\ screenshots \in SeqsUpTo(ScoredShots, MaxBars)
    /\ page_run = RunStats(Null, Null)
    /\ gpc = "start"
    /\ NothingRendered

CountersInit ==
    /\ screenshots = <<>>
    /\ page_run \in RunStatsRows
    /\ gpc = "start"
    /\ NothingRendered

InitViews ==
    /\ ScoresInit \/ CountersInit
    /\ IndexInit
    /\ LineageQuiet /\ StoreQuiet /\ ShotsQuiet /\ CatalogQuiet /\ QueryQuiet /\ HookQuiet

SpecViews == InitViews /\ [][ViewsNext]_vars

\* The catalog endpoints and the run detail page in one process.
InitCatalog == CatalogInit /\ PageIdle /\ LineageQuiet /\ StoreQuiet /\ ShotsQuiet /\ IndexQuiet /\ QueryQuiet /\ HookQuiet

SpecCatalog == InitCatalog /\ [][CatalogNext \/ PageNext]_vars

\* Requests to the deploy webhook.
InitDeploy ==
    /\ HookInit
    /\ LineageQuiet /\ PageQuiet /\ StoreQuiet /\ ShotsQuiet /\ CatalogQuiet /\ IndexQuiet
    /\ QueryQuiet

SpecDeploy == InitDeploy /\ [][DeployNext]_vars

\* Requests to list_runs.
InitQuery ==
    /\ QueryInit
    /\ LineageQuiet /\ PageQuiet /\ StoreQuiet /\ ShotsQuiet /\ CatalogQuiet /\ IndexQuiet /\ HookQuiet

SpecQuery == InitQuery /\ [][QueryNext]_vars

====
